---- MODULE Spec2Model ----
(***************************************************************************)
(* Control-plane reconciler of pangolin: DNS-authority fan-out,           *)
(* auth-proxy fan-out, Olm sync bootstrap and the health-status ingestor. *)
(* The relational store is modelled table by table; every handler is one  *)
(* action that reads the store and records the messages it hands to       *)
(* sendToClient, in order, in the variable out.                           *)
(***************************************************************************)
EXTENDS Integers, Sequences, FiniteSets, TLC

VARIABLES
    sites,              \* table sites: siteId -> row
    resources,          \* table resources: resourceId -> row
    targets,            \* table targets: targetId -> row
    targetHealthCheck,  \* table targetHealthCheck: targetId -> row
    dashboardUrl,       \* config app.dashboard_url
    out,                \* messages handed to sendToClient by the last operation
    lastOp,             \* the last operation and its argument
    lastUpdate,         \* the resource of the latest zone "update" dispatched, and those of
                        \* its recipients that were not sent a "remove" of the zone since
    repeat,             \* messages of the preceding identical updateDNSAuthorityForResource call
    cycle,              \* progress of a disable / update / enable / update sequence on one resource
    errorCount,         \* errorCount of the last healthcheck/status batch
    edits,              \* number of operator edits made
    reports,            \* number of healthcheck/status messages handled
    inMsg,              \* the last inbound healthcheck/status message and its sender
    cachedPublicKeyPem, \* module variable cachedPublicKeyPem of the keypair loader
    called,             \* resourceIds updateDNSAuthorityForResource ran for in the last operation
    raised,             \* the last healthcheck/status handler rejected with an error
    request,            \* the last request to GET /auth/session/validate
    response,           \* the response to it
    held,               \* per Olm, the zones it holds: domain -> zone config
    lost,               \* per Olm, a message to it has been dropped by the bus
    sent,               \* number of dispatches and syncs made over the lossy bus
    call,               \* per slot, a running updateDNSAuthorityForResource call
    delivered,          \* per agent, the last zone message delivered for each domain
    changed,            \* resources an edit was made to, each followed by a call
    privateKeyFile,     \* content of auth/jwt_private.pem, NULL when the file is missing
    publicKeyFile,      \* content of auth/jwt_public.pem, NULL when the file is missing
    cachedPrivateKey,   \* module variable cachedPrivateKey of the keypair loader
    generated,          \* number of keypairs generateKeyPairSync has produced
    keyCall,            \* the last call of the keypair loader, the files before it, its result
    sendFault,          \* the sends that reject in the last operation, and whether it raised
    lastAuthProxy       \* per Newt, the resourceIds of the last newt/auth/proxy/config
                        \* delivered to it, none before the first one

store == <<sites, resources, targets, targetHealthCheck>>
vars == <<sites, resources, targets, targetHealthCheck, dashboardUrl, out,
          lastOp, lastUpdate, repeat, cycle, errorCount, edits, reports, inMsg,
          cachedPublicKeyPem, called, raised, request, response, held, lost, sent,
          call, delivered, changed, privateKeyFile, publicKeyFile, cachedPrivateKey,
          generated, keyCall, sendFault, lastAuthProxy>>

----------------------------------------------------------------------------
(* Bounds of the exploration *)

MaxEdits == 2       \* operator edits per behaviour
MaxReports == 2     \* healthcheck/status messages per behaviour
MaxBatch == 2       \* target entries per healthcheck/status message
MaxIds == 2         \* targetIds per onHealthCheckUpdate call
MaxFaulty == 1      \* healthcheck/status messages handled with a fault per behaviour
MaxSent == 3        \* dispatches and syncs over the lossy bus per behaviour
MaxKeys == 3        \* keypairs generated per behaviour
MaxFailing == 2     \* sends that reject within one operation
MaxConfigReports == 1   \* healthcheck/status messages carrying the checks' config per behaviour

----------------------------------------------------------------------------
(* JavaScript values *)

NULL == "NULL"                  \* null / undefined of a text column
NullInt == -1                   \* null of an integer column
Truthy(s) == s # NULL /\ s # "" \* !!s for a string
OrInt(n, d) == IF n = NullInt \/ n = 0 THEN d ELSE n   \* n || d for a number
OrStr(s, d) == IF Truthy(s) THEN s ELSE d              \* s || d for a string

RECURSIVE SetToSeq(_)
\* rows come back in primary-key order
SetToSeq(S) ==
    IF S = {} THEN <<>>
    ELSE LET m == CHOOSE x \in S : \A y \in S : x <= y
         IN  <<m>> \o SetToSeq(S \ {m})

RECURSIVE Flatten(_)
Flatten(ss) == IF ss = <<>> THEN <<>> ELSE Head(ss) \o Flatten(Tail(ss))

Range(s) == {s[i] : i \in 1..Len(s)}

RECURSIVE Unique(_)
\* Array.from(new Set(xs)): first occurrences, in order
Unique(xs) ==
    IF xs = <<>> THEN <<>>
    ELSE LET rest == Unique(SelectSeq(Tail(xs), LAMBDA x : x # Head(xs)))
         IN  <<Head(xs)>> \o rest

----------------------------------------------------------------------------
(* Tables no modelled operation writes *)

newts == <<[newtId |-> "n1", siteId |-> 1], [newtId |-> "n2", siteId |-> 2],
          [newtId |-> "n3", siteId |-> NullInt]>>

clients == [c \in 1..4 |->
    [clientId |-> c,
     olmId |-> CASE c = 1 -> "o1" [] c = 2 -> "o2" [] c = 3 -> NULL [] OTHER -> "o3"]]

olms == <<[olmId |-> "o1", clientId |-> 1], [olmId |-> "o2", clientId |-> 2],
          [olmId |-> "o3", clientId |-> 4]>>

clientSitesAssociationsCache ==
    <<[clientId |-> 1, siteId |-> 1], [clientId |-> 1, siteId |-> 2],
      [clientId |-> 2, siteId |-> 3], [clientId |-> 3, siteId |-> 1]>>

exitNodes == <<[exitNodeId |-> 1, publicKey |-> "ek1", endpoint |-> "exit1.example.com"]>>

resourceWhitelist == <<[resourceId |-> 1, email |-> "a@x"], [resourceId |-> 2, email |-> "b@x"]>>

ResourceIds == 1..4     \* resourceId 4 has no row
SiteIds == 1..4         \* siteId 4 has no row

InitSites == [s \in 1..3 |->
    [siteId |-> s,
     orgId |-> IF s = 3 THEN "org2" ELSE "org1",
     name |-> CASE s = 1 -> "alpha" [] s = 2 -> "beta" [] OTHER -> "",
     publicIp |-> CASE s = 1 -> "203.0.113.10" [] s = 2 -> "203.0.113.20" [] OTHER -> NULL,
     dnsAuthorityEnabled |-> s # 3,
     exitNodeId |-> IF s = 3 THEN NullInt ELSE 1]]

InitResources == [r \in 1..3 |->
    [resourceId |-> r,
     fullDomain |-> CASE r = 1 -> "svc.example.com" [] r = 2 -> "app.example.com" [] OTHER -> NULL,
     dnsAuthorityEnabled |-> TRUE,
     dnsAuthorityTtl |-> IF r = 2 THEN 300 ELSE NullInt,
     dnsAuthorityRoutingPolicy |-> IF r = 2 THEN "roundrobin" ELSE NULL,
     sso |-> r = 1,
     blockAccess |-> r = 3,
     emailWhitelistEnabled |-> r = 1,
     ssl |-> r = 2]]

InitTargets == [t \in 1..5 |->
    [targetId |-> t,
     resourceId |-> CASE t \in 1..3 -> 1 [] t = 4 -> 2 [] OTHER -> 3,
     siteId |-> CASE t \in 1..2 -> 1 [] t \in 3..4 -> 2 [] OTHER -> 3,
     ip |-> CASE t = 1 -> "10.0.0.5" [] t = 2 -> "10.0.0.6" [] t = 3 -> "10.0.1.5"
              [] t = 4 -> "10.0.1.6" [] OTHER -> "10.0.2.5",
     port |-> 8080,
     method |-> IF t \in {1, 5} THEN "https" ELSE "http",
     ssl |-> t \in {1, 5},
     enabled |-> TRUE,
     priority |-> CASE t = 1 -> NullInt [] t = 2 -> 0 [] t = 3 -> 50 [] OTHER -> 100]]

InitTargetHealthCheck == [t \in 1..5 |->
    [targetId |-> t,
     hcEnabled |-> t \in {1, 3, 4},
     hcHealth |-> IF t = 3 THEN "unhealthy" ELSE "healthy"]]

SiteIp(s) == CASE s = 1 -> "203.0.113.10" [] s = 2 -> "203.0.113.20" [] OTHER -> "203.0.113.30"

----------------------------------------------------------------------------
(* DNS-authority reconciler *)

NullConfig == [null |-> TRUE]

\* targets of resourceId, inner-joined with sites, left-joined with targetHealthCheck;
\* thc is the targetHealthCheck table as the query reads it
ResourceTargetRows(resourceId, thc) ==
    LET ids == SetToSeq({t \in DOMAIN targets :
                    /\ targets[t].resourceId = resourceId
                    /\ targets[t].siteId \in DOMAIN sites})
    IN  [i \in 1..Len(ids) |->
            LET t == targets[ids[i]]
                s == sites[t.siteId]
            IN  [targetId |-> t.targetId, siteId |-> t.siteId, ip |-> t.ip,
                 enabled |-> t.enabled, priority |-> t.priority,
                 siteName |-> s.name, sitePublicIp |-> s.publicIp,
                 siteDnsAuthorityEnabled |-> s.dnsAuthorityEnabled,
                 hcEnabled |-> thc[ids[i]].hcEnabled,
                 hcHealth |-> thc[ids[i]].hcHealth]]

ValidTargetAnyState(t) == Truthy(t.sitePublicIp) /\ t.siteDnsAuthorityEnabled
ValidTargetAnySite(t) == t.enabled /\ Truthy(t.sitePublicIp)
ValidTarget(t) == t.enabled /\ Truthy(t.sitePublicIp) /\ t.siteDnsAuthorityEnabled

DNSAuthorityTargetIpMut(t) == t.ip
DNSAuthorityTargetIp(t) == t.sitePublicIp

DNSAuthorityTargetMut(t) ==
    [ip |-> DNSAuthorityTargetIp(t),
     priority |-> OrInt(t.priority, 100),
     healthy |-> t.hcHealth = "healthy",
     siteId |-> t.siteId,
     siteName |-> OrStr(t.siteName, "Site " \o ToString(t.siteId))]

DNSAuthorityTarget(t) ==
    [ip |-> DNSAuthorityTargetIp(t),
     priority |-> OrInt(t.priority, 100),
     healthy |-> IF t.hcEnabled THEN t.hcHealth = "healthy" ELSE TRUE,
     siteId |-> t.siteId,
     siteName |-> OrStr(t.siteName, "Site " \o ToString(t.siteId))]

buildDNSAuthorityConfigAt(resourceId, thc) ==
    IF resourceId \notin DOMAIN resources THEN NullConfig
    ELSE LET resource == resources[resourceId]
             validTargets == SelectSeq(ResourceTargetRows(resourceId, thc), ValidTarget)
         IN  IF ~resource.dnsAuthorityEnabled THEN NullConfig
             ELSE IF ~Truthy(resource.fullDomain) THEN NullConfig
             ELSE IF Len(validTargets) = 0 THEN NullConfig
             ELSE [enabled |-> TRUE,
                   domain |-> resource.fullDomain,
                   ttl |-> OrInt(resource.dnsAuthorityTtl, 60),
                   routingPolicy |-> OrStr(resource.dnsAuthorityRoutingPolicy, "failover"),
                   targets |-> [i \in 1..Len(validTargets) |->
                                    DNSAuthorityTarget(validTargets[i])]]

buildDNSAuthorityConfig(resourceId) ==
    buildDNSAuthorityConfigAt(resourceId, targetHealthCheck)

EnabledTargetSiteRowsMut(resourceId) ==
    LET ids == SetToSeq({t \in DOMAIN targets :
                    /\ targets[t].resourceId = resourceId
                    /\ targets[t].siteId \in DOMAIN sites})
    IN  [i \in 1..Len(ids) |-> sites[targets[ids[i]].siteId]]

\* enabled targets of resourceId, inner-joined with sites
EnabledTargetSiteRows(resourceId) ==
    LET ids == SetToSeq({t \in DOMAIN targets :
                    /\ targets[t].resourceId = resourceId
                    /\ targets[t].enabled
                    /\ targets[t].siteId \in DOMAIN sites})
    IN  [i \in 1..Len(ids) |-> sites[targets[ids[i]].siteId]]

DnsSite(s) == s.dnsAuthorityEnabled /\ Truthy(s.publicIp)

\* one query of getDNSAuthoritySiteOlmIds: associations of siteId joined with clients
OlmClientsOfSite(siteId) ==
    LET rows == SelectSeq(clientSitesAssociationsCache,
                    LAMBDA a : /\ a.siteId = siteId
                               /\ a.clientId \in DOMAIN clients
                               /\ clients[a.clientId].olmId # NULL)
    IN  [i \in 1..Len(rows) |-> clients[rows[i].clientId].olmId]

getDNSAuthoritySiteOlmIds(resourceId) ==
    LET dnsRows == SelectSeq(EnabledTargetSiteRows(resourceId), DnsSite)
        dnsAuthoritySiteIds == [i \in 1..Len(dnsRows) |-> dnsRows[i].siteId]
        olmClients == Flatten([i \in 1..Len(dnsAuthoritySiteIds) |->
                                    OlmClientsOfSite(dnsAuthoritySiteIds[i])])
    IN  IF Len(dnsAuthoritySiteIds) = 0 THEN <<>>
        ELSE Unique(SelectSeq(olmClients, Truthy))

\* newts inner-joined on the site of a row
NewtRowsOfSite(s) ==
    LET ns == SelectSeq(newts, LAMBDA n : n.siteId = s.siteId)
    IN  [i \in 1..Len(ns) |-> [newtId |-> ns[i].newtId, siteId |-> s.siteId,
                               sitePublicIp |-> s.publicIp,
                               siteDnsAuthorityEnabled |-> s.dnsAuthorityEnabled]]

getDNSAuthoritySiteNewtIds(resourceId) ==
    LET siteRows == EnabledTargetSiteRows(resourceId)
        rows == Flatten([i \in 1..Len(siteRows) |-> NewtRowsOfSite(siteRows[i])])
        kept == SelectSeq(rows, LAMBDA t : Truthy(t.sitePublicIp) /\ t.siteDnsAuthorityEnabled)
        mapped == [i \in 1..Len(kept) |->
                      [newtId |-> OrStr(kept[i].newtId, ""), siteId |-> kept[i].siteId]]
    IN  SelectSeq(mapped, LAMBDA t : Truthy(t.newtId))

Message(to, type, data) == [to |-> to, type |-> type, data |-> data]

sendDNSAuthorityConfigToNewt(newtId, config) ==
    Message(newtId, "newt/dns/authority/config", config)

sendDNSAuthorityConfigToOlm(olmId, config) ==
    Message(olmId, "olm/dns/authority/config", config)

UpdateZones(config) == [action |-> "update", zones |-> <<config>>]
RemoveZones(domain) == [action |-> "remove", zones |-> <<[domain |-> domain]>>]

\* sendToClient rejects for the recipients and the message types in failing
Rejects(m, failing) == m.to \in failing \/ m.type \in failing

\* a variant without the try/catch: the rejection leaves the caller's loop
TrySendMut(m, failing) == [attempted |-> <<m>>, thrown |-> Rejects(m, failing)]

\* the try/catch of sendDNSAuthorityConfigToNewt / ToOlm around sendToClient
TrySend(m, failing) == [attempted |-> <<m>>, thrown |-> FALSE]

RECURSIVE SendLoop(_, _, _)
\* the awaited sends of msgs in order, until one of them throws
SendLoop(msgs, failing, acc) ==
    IF msgs = <<>> \/ acc.thrown THEN acc
    ELSE LET sending == TrySend(Head(msgs), failing)
         IN  SendLoop(Tail(msgs), failing,
                      [attempted |-> acc.attempted \o sending.attempted,
                       thrown |-> sending.thrown])

NoSends == [attempted |-> <<>>, thrown |-> FALSE]

ResourceKnown(resourceId) ==
    resourceId \in DOMAIN resources /\ Truthy(resources[resourceId].fullDomain)

NewtDispatchMut(resourceId, thc) ==
    LET config == buildDNSAuthorityConfigAt(resourceId, thc)
        newtSites == getDNSAuthoritySiteNewtIds(resourceId)
    IN  IF config # NullConfig
        THEN [i \in 1..Len(newtSites) |->
                sendDNSAuthorityConfigToNewt(newtSites[i].newtId, UpdateZones(config))]
        ELSE <<>>

\* first loop of updateDNSAuthorityForResource: the Newt recipients
NewtDispatch(resourceId, thc) ==
    LET config == buildDNSAuthorityConfigAt(resourceId, thc)
        newtSites == getDNSAuthoritySiteNewtIds(resourceId)
    IN  IF config # NullConfig
        THEN [i \in 1..Len(newtSites) |->
                sendDNSAuthorityConfigToNewt(newtSites[i].newtId, UpdateZones(config))]
        ELSE IF ResourceKnown(resourceId)
        THEN [i \in 1..Len(newtSites) |->
                sendDNSAuthorityConfigToNewt(newtSites[i].newtId,
                    RemoveZones(resources[resourceId].fullDomain))]
        ELSE <<>>

\* second loop of updateDNSAuthorityForResource: the Olm recipients
OlmDispatch(resourceId, thc) ==
    LET config == buildDNSAuthorityConfigAt(resourceId, thc)
        olmIds == getDNSAuthoritySiteOlmIds(resourceId)
    IN  IF config # NullConfig
        THEN [i \in 1..Len(olmIds) |->
                sendDNSAuthorityConfigToOlm(olmIds[i], UpdateZones(config))]
        ELSE IF ResourceKnown(resourceId)
        THEN [i \in 1..Len(olmIds) |->
                sendDNSAuthorityConfigToOlm(olmIds[i],
                    RemoveZones(resources[resourceId].fullDomain))]
        ELSE <<>>

updateDNSAuthorityForResourceMut(resourceId, thc) ==
    SelectSeq(NewtDispatch(resourceId, thc) \o OlmDispatch(resourceId, thc),
              LAMBDA m : ~(lastUpdate.r = resourceId /\ m.to \in lastUpdate.to))

\* the messages of one updateDNSAuthorityForResource call, in sending order
updateDNSAuthorityForResourceAt(resourceId, thc) ==
    NewtDispatch(resourceId, thc) \o OlmDispatch(resourceId, thc)

updateDNSAuthorityForResource(resourceId) ==
    updateDNSAuthorityForResourceAt(resourceId, targetHealthCheck)

RECURSIVE DispatchAll(_, _)
DispatchAll(resourceIds, thc) ==
    IF resourceIds = <<>> THEN <<>>
    ELSE updateDNSAuthorityForResourceAt(Head(resourceIds), thc)
            \o DispatchAll(Tail(resourceIds), thc)

HealthResourceIdsMut(targetIds) ==
    LET hit == SelectSeq(targetIds,
                    LAMBDA t : /\ t \in DOMAIN targets
                               /\ targets[t].resourceId \in DOMAIN resources
                               /\ resources[targets[t].resourceId].dnsAuthorityEnabled)
    IN  [i \in 1..Len(hit) |-> targets[hit[i]].resourceId]

\* the de-duplicated resourceIds collected by onHealthCheckUpdate
HealthResourceIds(targetIds) ==
    LET hit == SelectSeq(targetIds,
                    LAMBDA t : /\ t \in DOMAIN targets
                               /\ targets[t].resourceId \in DOMAIN resources
                               /\ resources[targets[t].resourceId].dnsAuthorityEnabled)
    IN  Unique([i \in 1..Len(hit) |-> targets[hit[i]].resourceId])

\* the messages of one onHealthCheckUpdate call
onHealthCheckUpdate(targetIds, thc) == DispatchAll(HealthResourceIds(targetIds), thc)

----------------------------------------------------------------------------
(* Olm sync bootstrap *)

ClientsStartPort == 21820

\* stands for the site configurations built by buildSiteConfigurationForOlmClient
buildSiteConfigurationForOlmClient(client) ==
    LET rows == SelectSeq(clientSitesAssociationsCache,
                    LAMBDA a : a.clientId = client.clientId /\ a.siteId \in DOMAIN sites)
    IN  [i \in 1..Len(rows) |-> [siteId |-> rows[i].siteId]]

ExitNodesData(client) ==
    LET rows == SelectSeq(clientSitesAssociationsCache,
                    LAMBDA a : a.clientId = client.clientId /\ a.siteId \in DOMAIN sites)
        clientSites == [i \in 1..Len(rows) |-> sites[rows[i].siteId]]
        withExit == SelectSeq(clientSites, LAMBDA s : s.exitNodeId # NullInt)
        exitNodeIds == Unique([i \in 1..Len(withExit) |-> withExit[i].exitNodeId])
        allExitNodes == SelectSeq(exitNodes, LAMBDA e : e.exitNodeId \in Range(exitNodeIds))
        SiteIdsOf(e) == LET ss == SelectSeq(withExit, LAMBDA s : s.exitNodeId = e)
                        IN  [i \in 1..Len(ss) |-> ss[i].siteId]
    IN  IF Len(exitNodeIds) > 0
        THEN [i \in 1..Len(allExitNodes) |->
                [publicKey |-> allExitNodes[i].publicKey,
                 relayPort |-> ClientsStartPort,
                 endpoint |-> allExitNodes[i].endpoint,
                 siteIds |-> SiteIdsOf(allExitNodes[i].exitNodeId)]]
        ELSE <<>>

RelevantResourceIdsMut ==
    LET ids == SetToSeq({t \in DOMAIN targets :
                    /\ targets[t].enabled
                    /\ targets[t].resourceId \in DOMAIN resources
                    /\ targets[t].siteId \in DOMAIN sites
                    /\ resources[targets[t].resourceId].dnsAuthorityEnabled
                    /\ sites[targets[t].siteId].dnsAuthorityEnabled
                    /\ Truthy(sites[targets[t].siteId].publicIp)})
    IN  IF ids = <<>> THEN <<>> ELSE <<targets[ids[1]].resourceId>>

\* resources with dnsAuthorityEnabled and an enabled target on a DNS-authority site
RelevantResourceIds ==
    LET ids == SetToSeq({t \in DOMAIN targets :
                    /\ targets[t].enabled
                    /\ targets[t].resourceId \in DOMAIN resources
                    /\ targets[t].siteId \in DOMAIN sites
                    /\ resources[targets[t].resourceId].dnsAuthorityEnabled
                    /\ sites[targets[t].siteId].dnsAuthorityEnabled})
        kept == SelectSeq(ids, LAMBDA t : /\ Truthy(sites[targets[t].siteId].publicIp)
                                          /\ sites[targets[t].siteId].dnsAuthorityEnabled)
    IN  Unique([i \in 1..Len(kept) |-> targets[kept[i]].resourceId])

sendDNSAuthorityZonesToOlm(olm, client) ==
    LET associatedSites == SelectSeq(clientSitesAssociationsCache,
                              LAMBDA a : a.clientId = client.clientId)
        relevantResourceIds == RelevantResourceIds
        configs == [i \in 1..Len(relevantResourceIds) |->
                        buildDNSAuthorityConfig(relevantResourceIds[i])]
        zones == SelectSeq(configs, LAMBDA c : c # NullConfig)
    IN  IF Len(associatedSites) = 0 THEN <<>>
        ELSE IF Len(relevantResourceIds) = 0 THEN <<>>
        ELSE IF Len(zones) > 0
        THEN <<sendDNSAuthorityConfigToOlm(olm.olmId, [action |-> "update", zones |-> zones])>>
        ELSE <<>>

sendOlmSyncMessageMut(olm, client) ==
    sendDNSAuthorityZonesToOlm(olm, client)
    \o <<Message(olm.olmId, "olm/sync",
                 [sites |-> buildSiteConfigurationForOlmClient(client),
                  exitNodes |-> ExitNodesData(client)])>>

sendOlmSyncMessage(olm, client) ==
    <<Message(olm.olmId, "olm/sync",
              [sites |-> buildSiteConfigurationForOlmClient(client),
               exitNodes |-> ExitNodesData(client)])>>
    \o sendDNSAuthorityZonesToOlm(olm, client)

\* a variant without the .catch on the olm/sync send
SyncSendMut(m, failing) == [attempted |-> <<m>>, thrown |-> Rejects(m, failing)]

\* sendToClient(olm/sync).catch(...)
SyncSend(m, failing) == [attempted |-> <<m>>, thrown |-> FALSE]

\* sendOlmSyncMessage when the sends of failing reject and, with "store" in
\* failing, the queries of sendDNSAuthorityZonesToOlm throw
sendOlmSyncMessageUnder(olm, client, failing) ==
    LET msgs == sendOlmSyncMessage(olm, client)
        first == SyncSend(Head(msgs), failing)
    IN  IF first.thrown THEN first
        ELSE IF "store" \in failing THEN first
        ELSE SendLoop(Tail(msgs), failing, first)

----------------------------------------------------------------------------
(* Keypair loader *)

NullPair == [null |-> TRUE]             \* loadJwtKeypair returning null
Garbage == "garbage"                    \* file content crypto.createPrivateKey rejects
PrivatePem(n) == "key" \o ToString(n)   \* PKCS#8 PEM of the n-th generated private key
PublicPem(n) == "pem" \o ToString(n)    \* SPKI PEM of the n-th generated public key

\* the files and module variables the keypair loader works on
KeyStore ==
    [privateKeyFile |-> privateKeyFile, publicKeyFile |-> publicKeyFile,
     cachedPrivateKey |-> cachedPrivateKey, cachedPublicKeyPem |-> cachedPublicKeyPem,
     generated |-> generated]

\* a variant that writes jwt_private.pem only
generateJwtKeypairMut(k) ==
    LET n == k.generated + 1
    IN  [store |-> [privateKeyFile |-> PrivatePem(n), publicKeyFile |-> k.publicKeyFile,
                    cachedPrivateKey |-> PrivatePem(n), cachedPublicKeyPem |-> PublicPem(n),
                    generated |-> n],
         result |-> [privateKey |-> PrivatePem(n), publicKeyPem |-> PublicPem(n)]]

generateJwtKeypair(k) ==
    LET n == k.generated + 1
    IN  [store |-> [privateKeyFile |-> PrivatePem(n), publicKeyFile |-> PublicPem(n),
                    cachedPrivateKey |-> PrivatePem(n), cachedPublicKeyPem |-> PublicPem(n),
                    generated |-> n],
         result |-> [privateKey |-> PrivatePem(n), publicKeyPem |-> PublicPem(n)]]

\* generateJwtKeypair cut short by a crash after the write of jwt_private.pem
\* and before the write of jwt_public.pem: the process and its caches are gone
generateJwtKeypairCrashed(k) ==
    LET n == k.generated + 1
    IN  [store |-> [privateKeyFile |-> PrivatePem(n), publicKeyFile |-> k.publicKeyFile,
                    cachedPrivateKey |-> NULL, cachedPublicKeyPem |-> NULL,
                    generated |-> n],
         result |-> NullPair]

loadJwtKeypair(k) ==
    IF k.privateKeyFile = NULL \/ k.publicKeyFile = NULL
    THEN [store |-> k, result |-> NullPair]
    ELSE IF k.privateKeyFile = Garbage \/ k.privateKeyFile = ""
    THEN [store |-> k, result |-> NullPair]
    ELSE [store |-> [k EXCEPT !.cachedPrivateKey = k.privateKeyFile,
                              !.cachedPublicKeyPem = k.publicKeyFile],
          result |-> [privateKey |-> k.privateKeyFile, publicKeyPem |-> k.publicKeyFile]]

ensureJwtKeypair(k) ==
    LET existing == loadJwtKeypair(k)
    IN  IF existing.result # NullPair THEN existing ELSE generateJwtKeypair(k)

\* getJwtPublicKeyPem with the module variables it leaves behind
getJwtPublicKeyPemAt(k) ==
    IF Truthy(k.cachedPublicKeyPem)
    THEN [store |-> k, result |-> [publicKeyPem |-> k.cachedPublicKeyPem]]
    ELSE LET loaded == loadJwtKeypair(k)
         IN  IF loaded.result # NullPair
             THEN [store |-> loaded.store,
                   result |-> [publicKeyPem |-> loaded.result.publicKeyPem]]
             ELSE [store |-> k, result |-> [publicKeyPem |-> ""]]

getJwtPublicKeyPem == getJwtPublicKeyPemAt(KeyStore).result.publicKeyPem

----------------------------------------------------------------------------
(* Auth-proxy reconciler *)

orgs == {"org1", "org2"}

NoUrl == [unset |-> TRUE]       \* app.dashboard_url not configured
DashboardUrls == {NoUrl, [scheme |-> "https", host |-> <<"app", "example", "com">>]}
\* dashboard URLs whose hostname has one, two, three and four labels
HostUrls ==
    {[scheme |-> "http", host |-> <<"localhost">>],
     [scheme |-> "https", host |-> <<"example", "com">>],
     [scheme |-> "https", host |-> <<"app", "example", "com">>],
     [scheme |-> "https", host |-> <<"a", "b", "example", "org">>]}

RECURSIVE JoinDots(_)
JoinDots(parts) ==
    IF parts = <<>> THEN ""
    ELSE IF Len(parts) = 1 THEN parts[1]
    ELSE parts[1] \o "." \o JoinDots(Tail(parts))

Href(url) == url.scheme \o "://" \o JoinDots(url.host)

\* a variant that prefixes the dot whatever the number of labels
extractBaseDomainMut(url) ==
    LET parts == url.host
    IN  "." \o JoinDots(SubSeq(parts, IF Len(parts) >= 2 THEN Len(parts) - 1 ELSE 1,
                               Len(parts)))

extractBaseDomain(url) ==
    LET parts == url.host
    IN  IF Len(parts) >= 2
        THEN "." \o JoinDots(SubSeq(parts, Len(parts) - 1, Len(parts)))
        ELSE JoinDots(parts)

\* enabled targets on siteId, inner-joined with resources
SiteTargetRows(siteId) ==
    LET ids == SetToSeq({t \in DOMAIN targets :
                    /\ targets[t].siteId = siteId
                    /\ targets[t].enabled
                    /\ targets[t].resourceId \in DOMAIN resources})
    IN  [i \in 1..Len(ids) |->
            LET t == targets[ids[i]]
                r == resources[t.resourceId]
            IN  [resourceId |-> t.resourceId, siteId |-> t.siteId,
                 targetIp |-> t.ip, targetPort |-> t.port, targetMethod |-> t.method,
                 fullDomain |-> r.fullDomain, sso |-> r.sso,
                 blockAccess |-> r.blockAccess,
                 emailWhitelistEnabled |-> r.emailWhitelistEnabled,
                 ssl |-> r.ssl, dnsAuthorityEnabled |-> r.dnsAuthorityEnabled]]

ProtectedResourceMut(t) == t.sso \/ t.blockAccess \/ t.emailWhitelistEnabled
ProtectedResource(t) ==
    t.dnsAuthorityEnabled /\ (t.sso \/ t.blockAccess \/ t.emailWhitelistEnabled)

AllowedEmails(t) ==
    IF t.emailWhitelistEnabled
    THEN LET ws == SelectSeq(resourceWhitelist, LAMBDA w : w.resourceId = t.resourceId)
         IN  [i \in 1..Len(ws) |-> ws[i].email]
    ELSE <<>>

ResourceAuthConfig(t) ==
    [resourceId |-> t.resourceId,
     domain |-> t.fullDomain,
     sso |-> t.sso,
     blockAccess |-> t.blockAccess,
     emailWhitelistEnabled |-> t.emailWhitelistEnabled,
     allowedEmails |-> AllowedEmails(t),
     targetUrl |-> (IF t.ssl THEN "https" ELSE "http") \o "://" \o t.targetIp
                        \o ":" \o ToString(t.targetPort),
     ssl |-> t.ssl]

buildAuthProxyConfig(siteId) ==
    IF siteId \notin DOMAIN sites THEN NullConfig
    ELSE IF sites[siteId].orgId \notin orgs THEN NullConfig
    ELSE LET protectedResources == SelectSeq(SiteTargetRows(siteId), ProtectedResource)
             withDomain == SelectSeq(protectedResources, LAMBDA t : Truthy(t.fullDomain))
         IN  IF Len(protectedResources) = 0 THEN NullConfig
             ELSE IF dashboardUrl = NoUrl THEN NullConfig
             ELSE [action |-> "update",
                   auth |-> [enabled |-> TRUE,
                             pangolinUrl |-> Href(dashboardUrl),
                             jwtPublicKey |-> getJwtPublicKeyPem,
                             cookieName |-> "p_session",
                             cookieDomain |-> extractBaseDomain(dashboardUrl),
                             sessionValidationUrl |->
                                Href(dashboardUrl) \o "/api/v1/auth/session/validate"],
                   resources |-> [i \in 1..Len(withDomain) |->
                                    ResourceAuthConfig(withDomain[i])]]

sendAuthProxyConfigToNewt(newtId, config) ==
    Message(newtId, "newt/auth/proxy/config", config)

updateAuthProxyForSite(siteId) ==
    LET rows == IF siteId \in DOMAIN sites
                THEN SelectSeq(newts, LAMBDA n : n.siteId = siteId)
                ELSE <<>>
        config == buildAuthProxyConfig(siteId)
    IN  IF rows = <<>> \/ ~Truthy(rows[1].newtId) THEN <<>>
        ELSE IF config # NullConfig
        THEN <<sendAuthProxyConfigToNewt(rows[1].newtId, config)>>
        ELSE <<>>

\* enabled targets of resourceId, inner-joined with sites and with newts
ResourceNewtRows(resourceId) ==
    LET ids == SetToSeq({t \in DOMAIN targets :
                    /\ targets[t].resourceId = resourceId
                    /\ targets[t].enabled
                    /\ targets[t].siteId \in DOMAIN sites})
    IN  Flatten([i \in 1..Len(ids) |->
            LET ns == SelectSeq(newts, LAMBDA n : n.siteId = targets[ids[i]].siteId)
            IN  [k \in 1..Len(ns) |->
                    [siteId |-> targets[ids[i]].siteId, newtId |-> ns[k].newtId]]])

\* the body of the loop of updateAuthProxyForResource for one siteId
AuthProxyForResourceSite(resourceTargets, siteId) ==
    LET config == buildAuthProxyConfig(siteId)
        found == SelectSeq(resourceTargets, LAMBDA t : t.siteId = siteId)
    IN  IF config # NullConfig /\ found # <<>> /\ Truthy(found[1].newtId)
        THEN <<sendAuthProxyConfigToNewt(found[1].newtId, config)>>
        ELSE <<>>

updateAuthProxyForResourceMut(resourceId) ==
    LET resourceTargets == ResourceNewtRows(resourceId)
        siteIds == [i \in 1..Len(resourceTargets) |-> resourceTargets[i].siteId]
    IN  Flatten([i \in 1..Len(siteIds) |->
                    AuthProxyForResourceSite(resourceTargets, siteIds[i])])

updateAuthProxyForResource(resourceId) ==
    LET resourceTargets == ResourceNewtRows(resourceId)
        siteIds == Unique([i \in 1..Len(resourceTargets) |-> resourceTargets[i].siteId])
    IN  Flatten([i \in 1..Len(siteIds) |->
                    AuthProxyForResourceSite(resourceTargets, siteIds[i])])

----------------------------------------------------------------------------
(* Session validation endpoint *)

HttpCodeOK == 200
HttpCodeInternalServerError == 500

sessions == <<[sessionId |-> "s1", sessionToken |-> "tokA", userId |-> "u1", expiresAt |-> 2],
             [sessionId |-> "s2", sessionToken |-> "tokB", userId |-> "u9", expiresAt |-> 3],
             [sessionId |-> "s3", sessionToken |-> "tokC", userId |-> "u2", expiresAt |-> 1]>>

users == <<[userId |-> "u1", email |-> "a@x"], [userId |-> "u2", email |-> "b@x"]>>

Times == 0..3       \* the clock values of new Date()

Cookies == {NULL, "", "tokA", "tokB", "tokC", "tokX"}

\* the Authorization header, as the pieces of its text
Authorizations ==
    {[set |-> FALSE, parts |-> <<>>]}
        \cup [set : {TRUE}, parts : {<<"Bearer ", "tokA">>, <<"tokA">>, <<"Bearer ">>,
                                      <<"Bearer ", "tokC">>, <<"Bearer ", "tokB">>}]

StoreFaults == {"none", "sessions", "users"}    \* the lookup that throws when it runs

Requests == [p_session : Cookies, authorization : Authorizations, now : Times,
             fault : StoreFaults]

RECURSIVE Concat(_)
Concat(parts) == IF parts = <<>> THEN "" ELSE Head(parts) \o Concat(Tail(parts))

RECURSIVE ReplaceFirst(_, _)
\* String.replace(piece, ""): the first occurrence is removed
ReplaceFirst(parts, piece) ==
    IF parts = <<>> THEN <<>>
    ELSE IF Head(parts) = piece THEN Tail(parts)
    ELSE <<Head(parts)>> \o ReplaceFirst(Tail(parts), piece)

\* req.cookies?.p_session || req.headers.authorization?.replace("Bearer ", "")
SessionToken(req) ==
    IF Truthy(req.p_session) THEN req.p_session
    ELSE IF req.authorization.set
    THEN Concat(ReplaceFirst(req.authorization.parts, "Bearer "))
    ELSE NULL

SessionRowsMut(sessionToken, now) ==
    SelectSeq(sessions, LAMBDA x : x.sessionToken = sessionToken /\ x.expiresAt >= now)

\* sessions where sessionToken matches and expiresAt > now
SessionRows(sessionToken, now) ==
    SelectSeq(sessions, LAMBDA x : x.sessionToken = sessionToken /\ x.expiresAt > now)

UserRows(userId) == SelectSeq(users, LAMBDA u : u.userId = userId)

toISOString(t) == "T" \o ToString(t)

Respond(status, data, success) ==
    [status |-> status, data |-> data, success |-> success, error |-> ~success]

CatchResponseMut == Respond(HttpCodeOK, [valid |-> FALSE], FALSE)

\* the catch block of validateSession
CatchResponse == Respond(HttpCodeInternalServerError, [valid |-> FALSE], FALSE)

validateSession(req) ==
    LET sessionToken == SessionToken(req)
        found == SessionRows(sessionToken, req.now)
        session == found[1]
        userRows == UserRows(session.userId)
        user == userRows[1]
    IN  IF ~Truthy(sessionToken)
        THEN Respond(HttpCodeOK, [valid |-> FALSE], TRUE)
        ELSE IF req.fault = "sessions" THEN CatchResponse
        ELSE IF found = <<>>
        THEN Respond(HttpCodeOK, [valid |-> FALSE], TRUE)
        ELSE IF req.fault = "users" THEN CatchResponse
        ELSE IF userRows = <<>>
        THEN Respond(HttpCodeOK, [valid |-> FALSE], TRUE)
        ELSE Respond(HttpCodeOK,
                     [valid |-> TRUE, userId |-> user.userId, email |-> user.email,
                      expiresAt |-> toISOString(session.expiresAt)], TRUE)

----------------------------------------------------------------------------
(* Health-status ingestor *)

NaN == -1

Digit(c) == CASE c = "0" -> 0 [] c = "1" -> 1 [] c = "2" -> 2 [] c = "3" -> 3
              [] c = "4" -> 4 [] c = "5" -> 5 [] c = "6" -> 6 [] c = "7" -> 7
              [] c = "8" -> 8 [] c = "9" -> 9 [] OTHER -> NaN

RECURSIVE ParseDigits(_, _)
ParseDigits(cs, acc) ==
    IF cs = <<>> \/ Digit(Head(cs)) = NaN THEN acc
    ELSE ParseDigits(Tail(cs), 10 * acc + Digit(Head(cs)))

\* parseInt of a key given as its characters: the leading digits, NaN without any
parseInt(cs) ==
    IF cs = <<>> \/ Digit(Head(cs)) = NaN THEN NaN ELSE ParseDigits(cs, 0)

\* the tenancy lookup: the target joined with its resource and site, on the newt's site
TargetCheckMut(targetIdNum, newt) ==
    /\ targetIdNum \in DOMAIN targets
    /\ targets[targetIdNum].resourceId \in DOMAIN resources
    /\ targets[targetIdNum].siteId \in DOMAIN sites
TargetCheck(targetIdNum, newt) ==
    /\ targetIdNum \in DOMAIN targets
    /\ targets[targetIdNum].resourceId \in DOMAIN resources
    /\ targets[targetIdNum].siteId \in DOMAIN sites
    /\ targets[targetIdNum].siteId = newt.siteId

NoFault == [at |-> 0, kind |-> "none"]

\* what can throw while a batch is handled: the entry at index at has no status object,
\* or its tenancy lookup or its update fails in the store; or onHealthCheckUpdate fails
Faults == {NoFault, [at |-> 0, kind |-> "dispatch"]}
            \cup [at : 1..MaxBatch, kind : {"status", "lookup", "update"}]

RECURSIVE ProcessEntries(_, _, _, _)
RECURSIVE ProcessEntriesMut(_, _, _, _)
\* a variant whose update also writes the hcEnabled carried in the report's config
ProcessEntriesMut(entries, newt, acc, fault) ==
    IF entries = <<>> THEN acc
    ELSE LET e == Head(entries)
             k == acc.index + 1
             targetIdNum == parseInt(e.key)
             next == [acc EXCEPT !.index = k]
         IN  IF targetIdNum = NaN \/ ~TargetCheck(targetIdNum, newt)
             THEN ProcessEntriesMut(Tail(entries), newt,
                    [next EXCEPT !.errorCount = @ + 1], fault)
             ELSE ProcessEntriesMut(Tail(entries), newt,
                    [next EXCEPT
                        !.table = [@ EXCEPT ![targetIdNum].hcHealth = e.status,
                                            ![targetIdNum].hcEnabled = e.config.hcEnabled],
                        !.successCount = @ + 1,
                        !.updatedTargetIds = Append(@, targetIdNum)], fault)

\* the loop over Object.entries(data.targets); acc carries the table and the counters,
\* and aborted once an exception left the loop
ProcessEntries(entries, newt, acc, fault) ==
    IF entries = <<>> THEN acc
    ELSE LET e == Head(entries)
             k == acc.index + 1
             targetIdNum == parseInt(e.key)
             next == [acc EXCEPT !.index = k]
         IN  IF fault.at = k /\ fault.kind = "status"
             THEN [next EXCEPT !.aborted = TRUE]
             ELSE IF targetIdNum = NaN
             THEN ProcessEntries(Tail(entries), newt,
                    [next EXCEPT !.errorCount = @ + 1], fault)
             ELSE IF fault.at = k /\ fault.kind = "lookup"
             THEN [next EXCEPT !.aborted = TRUE]
             ELSE IF ~TargetCheck(targetIdNum, newt)
             THEN ProcessEntries(Tail(entries), newt,
                    [next EXCEPT !.errorCount = @ + 1], fault)
             ELSE IF fault.at = k /\ fault.kind = "update"
             THEN [next EXCEPT !.aborted = TRUE]
             ELSE ProcessEntries(Tail(entries), newt,
                    [next EXCEPT
                        !.table = IF targetIdNum \in DOMAIN @
                                  THEN [@ EXCEPT ![targetIdNum].hcHealth = e.status]
                                  ELSE @,
                        !.successCount = @ + 1,
                        !.updatedTargetIds = Append(@, targetIdNum)], fault)

Keys == {<<"1">>, <<"3">>, <<"9">>, <<"x">>}
Statuses == {"healthy", "unhealthy", "degraded"}
Entries == [key : Keys, status : Statuses]

IsIndexKey(k) == parseInt(k) # NaN

\* Object.entries lists integer keys first, in ascending order
EntriesOrder(b) ==
    \A i, j \in 1..Len(b) : i < j =>
        /\ b[i].key # b[j].key
        /\ IsIndexKey(b[j].key) => /\ IsIndexKey(b[i].key)
                                   /\ parseInt(b[i].key) < parseInt(b[j].key)

Batches == UNION {{b \in [1..n -> Entries] : EntriesOrder(b)} : n \in 0..MaxBatch}

\* reports that carry the health-check settings of the target in config
ConfigEntries == [key : {<<"1">>, <<"3">>}, status : {"healthy", "unhealthy"},
                  config : [hcEnabled : BOOLEAN]]
ConfigBatches == {<<e>> : e \in ConfigEntries}

NoMsg == [newt |-> 0, hasData |-> FALSE, hasTargets |-> FALSE, targets |-> <<>>,
          fault |-> NoFault]

----------------------------------------------------------------------------
(* Initial state and actions *)

NoUpdate == [r |-> 0, to |-> {}]
NoRequest == [none |-> TRUE]
NoResponse == [none |-> TRUE]
NoCall == [pc |-> "idle"]
NoKeyCall == [op |-> "none"]
NoSendFault == [failing |-> {}, thrown |-> FALSE]
OlmIds == {olms[i].olmId : i \in 1..Len(olms)}
NewtIds == {newts[i].newtId : i \in 1..Len(newts)}
Agents == NewtIds \cup OlmIds
Slots == 1..2
NoCycle == [phase |-> 0, r |-> 0, first |-> <<>>]
Op(name, arg) == [op |-> name, arg |-> arg]
Recipients(msgs) == {msgs[i].to : i \in 1..Len(msgs)}

\* the state after startup, but for the configured dashboard URL
InitState ==
    /\ sites = InitSites
    /\ resources = InitResources
    /\ targets = InitTargets
    /\ targetHealthCheck = InitTargetHealthCheck
    /\ cachedPublicKeyPem = PublicPem(1)
    /\ out = <<>>
    /\ lastOp = Op("start", 0)
    /\ lastUpdate = NoUpdate
    /\ repeat = <<>>
    /\ cycle = NoCycle
    /\ errorCount = 0
    /\ edits = 0
    /\ reports = 0
    /\ inMsg = NoMsg
    /\ called = <<>>
    /\ raised = FALSE
    /\ request = NoRequest
    /\ response = NoResponse
    /\ held = [o \in OlmIds |-> {}]
    /\ lost = [o \in OlmIds |-> FALSE]
    /\ sent = 0
    /\ call = [c \in Slots |-> NoCall]
    /\ delivered = [a \in Agents |-> {}]
    /\ changed = {}
    /\ privateKeyFile = PrivatePem(1)
    /\ publicKeyFile = PublicPem(1)
    /\ cachedPrivateKey = PrivatePem(1)
    /\ generated = 1
    /\ keyCall = NoKeyCall
    /\ sendFault = NoSendFault
    /\ lastAuthProxy = [n \in NewtIds |-> {}]

Init == dashboardUrl \in DashboardUrls /\ InitState

\* startup with a dashboard URL of any of the hostname shapes
InitHosts == dashboardUrl \in HostUrls /\ InitState

config == <<dashboardUrl, cachedPublicKeyPem, privateKeyFile, publicKeyFile,
            cachedPrivateKey, generated, keyCall>>
ingest == <<errorCount, reports, inMsg, raised>>
web == <<request, response>>
channel == <<held, lost, sent, sendFault, lastAuthProxy>>
race == <<call, delivered, changed>>

\* an operator edit: nothing is sent, the histories of the last call end
Edited(name, arg) ==
    /\ edits < MaxEdits
    /\ edits' = edits + 1
    /\ out' = <<>>
    /\ called' = <<>>
    /\ lastOp' = Op(name, arg)
    /\ repeat' = <<>>
    /\ UNCHANGED <<lastUpdate, config, ingest, web, channel, race, targetHealthCheck>>

\* the site general form: onSubmit with the values the schema accepts
SaveSiteGeneral(s, publicIp, dnsAuthorityEnabled) ==
    /\ s \in DOMAIN sites
    /\ ~dnsAuthorityEnabled \/ Truthy(publicIp)
    /\ sites' = [sites EXCEPT ![s].publicIp = OrStr(publicIp, NULL),
                              ![s].dnsAuthorityEnabled = dnsAuthorityEnabled]
    /\ sites' # sites
    /\ cycle' = NoCycle
    /\ Edited("SaveSiteGeneral", s)
    /\ UNCHANGED <<resources, targets>>

\* the resource DNS-authority form: onSubmit with the switch flipped
SaveResourceDNSAuthority(r, dnsAuthorityEnabled) ==
    /\ r \in DOMAIN resources
    /\ dnsAuthorityEnabled # resources[r].dnsAuthorityEnabled
    /\ resources' = [resources EXCEPT
            ![r].dnsAuthorityEnabled = dnsAuthorityEnabled,
            ![r].dnsAuthorityTtl = IF @ = NullInt THEN 60 ELSE @,
            ![r].dnsAuthorityRoutingPolicy = IF @ = NULL THEN "failover" ELSE @]
    /\ cycle' = IF ~dnsAuthorityEnabled THEN [phase |-> 1, r |-> r, first |-> <<>>]
                ELSE IF cycle.phase = 2 /\ cycle.r = r THEN [cycle EXCEPT !.phase = 3]
                ELSE NoCycle
    /\ Edited("SaveResourceDNSAuthority", r)
    /\ UNCHANGED <<sites, targets>>

\* the operator enables or disables a target
SetTargetEnabled(t, enabled) ==
    /\ t \in DOMAIN targets
    /\ enabled # targets[t].enabled
    /\ targets' = [targets EXCEPT ![t].enabled = enabled]
    /\ cycle' = NoCycle
    /\ Edited("SetTargetEnabled", t)
    /\ UNCHANGED <<sites, resources>>

\* updateDNSAuthorityForResource(r) while the sends to failing reject
UpdateDNSAuthorityForResourceUnder(r, failing) ==
    /\ out' = SendLoop(updateDNSAuthorityForResource(r), failing, NoSends).attempted
    /\ sendFault' = [failing |-> failing,
                     thrown |-> SendLoop(updateDNSAuthorityForResource(r), failing,
                                         NoSends).thrown]
    /\ called' = <<r>>
    /\ lastOp' = Op("updateDNSAuthorityForResource", r)
    /\ lastUpdate' = IF buildDNSAuthorityConfig(r) # NullConfig
                     THEN [r |-> r, to |-> Recipients(out')]
                     ELSE IF lastUpdate.r = r
                     THEN [lastUpdate EXCEPT !.to = @ \ Recipients(out')]
                     ELSE lastUpdate
    /\ repeat' = IF lastOp = Op("updateDNSAuthorityForResource", r) THEN <<out>> ELSE <<>>
    /\ cycle' = IF cycle.phase = 1 /\ cycle.r = r
                THEN [phase |-> 2, r |-> r, first |-> out']
                ELSE IF cycle.phase = 3 /\ cycle.r = r
                THEN [cycle EXCEPT !.phase = 4]
                ELSE NoCycle
    /\ UNCHANGED <<store, config, ingest, web, held, lost, sent, lastAuthProxy, race, edits>>

UpdateDNSAuthorityForResource(r) == UpdateDNSAuthorityForResourceUnder(r, {})

\* sendOlmSyncMessage for olms[i] while the sends and queries of failing fail
SendOlmSyncMessageUnder(i, failing) ==
    /\ out' = sendOlmSyncMessageUnder(olms[i], clients[olms[i].clientId], failing).attempted
    /\ sendFault' = [failing |-> failing,
                     thrown |-> sendOlmSyncMessageUnder(olms[i], clients[olms[i].clientId],
                                                        failing).thrown]
    /\ called' = <<>>
    /\ lastOp' = Op("sendOlmSyncMessage", olms[i].clientId)
    /\ repeat' = <<>>
    /\ cycle' = NoCycle
    /\ UNCHANGED <<store, config, ingest, web, held, lost, sent, lastAuthProxy, race, edits,
                   lastUpdate>>

SendOlmSyncMessage(i) == SendOlmSyncMessageUnder(i, {})

UpdateAuthProxyForSite(s) ==
    /\ out' = updateAuthProxyForSite(s)
    /\ called' = <<>>
    /\ lastOp' = Op("updateAuthProxyForSite", s)
    /\ repeat' = <<>>
    /\ cycle' = NoCycle
    /\ UNCHANGED <<store, config, ingest, web, channel, race, edits, lastUpdate>>

RECURSIVE AuthProxyDelivered(_, _)
\* lastAuthProxy after the newt/auth/proxy/config messages of msgs were delivered
AuthProxyDelivered(last, msgs) ==
    IF msgs = <<>> THEN last
    ELSE LET m == Head(msgs)
         IN  AuthProxyDelivered(
                IF m.type = "newt/auth/proxy/config" /\ m.to \in DOMAIN last
                THEN [last EXCEPT ![m.to] =
                        {m.data.resources[i].resourceId : i \in 1..Len(m.data.resources)}]
                ELSE last,
                Tail(msgs))

\* updateAuthProxyForSite(s) with every message it sends delivered
UpdateAuthProxyForSiteDelivered(s) ==
    /\ out' = updateAuthProxyForSite(s)
    /\ lastAuthProxy' = AuthProxyDelivered(lastAuthProxy, updateAuthProxyForSite(s))
    /\ called' = <<>>
    /\ lastOp' = Op("updateAuthProxyForSite", s)
    /\ repeat' = <<>>
    /\ cycle' = NoCycle
    /\ UNCHANGED <<store, config, ingest, web, held, lost, sent, sendFault, race, edits,
                   lastUpdate>>

RECURSIVE LastDispatched(_, _)
\* lastUpdate after updateDNSAuthorityForResource ran for each of resourceIds
LastDispatched(resourceIds, last) ==
    IF resourceIds = <<>> THEN last
    ELSE LET r == Head(resourceIds)
         IN  LastDispatched(Tail(resourceIds),
                IF buildDNSAuthorityConfig(r) # NullConfig
                THEN [r |-> r, to |-> Recipients(updateDNSAuthorityForResource(r))]
                ELSE IF last.r = r
                THEN [last EXCEPT !.to = @ \ Recipients(updateDNSAuthorityForResource(r))]
                ELSE last)

TargetIdLists == UNION {[1..n -> {1, 2, 4, 9}] : n \in 1..MaxIds}

\* onHealthCheckUpdate called with a list of target ids
OnHealthCheckUpdate(targetIds) ==
    /\ out' = onHealthCheckUpdate(targetIds, targetHealthCheck)
    /\ called' = HealthResourceIds(targetIds)
    /\ lastOp' = [op |-> "onHealthCheckUpdate", targetIds |-> targetIds]
    /\ lastUpdate' = LastDispatched(HealthResourceIds(targetIds), lastUpdate)
    /\ repeat' = <<>>
    /\ cycle' = NoCycle
    /\ UNCHANGED <<store, config, ingest, web, channel, race, edits>>

HandleHealthcheckStatusMessage(n, hasData, hasTargets, batch, fault) ==
    LET newt == newts[n]
        start == [table |-> targetHealthCheck, successCount |-> 0, errorCount |-> 0,
                  updatedTargetIds |-> <<>>, index |-> 0, aborted |-> FALSE]
        hasSite == newt.siteId # NullInt /\ newt.siteId # 0
        handled == hasSite /\ hasData /\ hasTargets
        res == IF handled THEN ProcessEntries(batch, newt, start, fault) ELSE start
        notifies == /\ ~res.aborted
                    /\ Len(res.updatedTargetIds) > 0
                    /\ fault.kind # "dispatch"
        notified == IF notifies THEN HealthResourceIds(res.updatedTargetIds) ELSE <<>>
    IN  /\ reports < MaxReports
        /\ hasTargets \/ batch = <<>>
        /\ hasData \/ ~hasTargets
        /\ fault.at <= Len(batch)
        /\ reports' = reports + 1
        /\ inMsg' = [newt |-> n, hasData |-> hasData, hasTargets |-> hasTargets,
                     targets |-> batch, fault |-> fault]
        /\ raised' = (hasSite /\ ~hasData)
        /\ targetHealthCheck' = res.table
        /\ errorCount' = res.errorCount
        /\ UNCHANGED <<sites, resources, targets, config, edits, web, channel, race>>
        /\ out' = IF notifies
                  THEN onHealthCheckUpdate(res.updatedTargetIds, res.table)
                  ELSE <<>>
        /\ called' = notified
        /\ lastOp' = Op("handleHealthcheckStatusMessage", n)
        /\ lastUpdate' = LastDispatched(notified, lastUpdate)
        /\ repeat' = <<>>
        /\ cycle' = NoCycle

UpdateAuthProxyForResource(r) ==
    /\ out' = updateAuthProxyForResource(r)
    /\ called' = <<>>
    /\ lastOp' = Op("updateAuthProxyForResource", r)
    /\ repeat' = <<>>
    /\ cycle' = NoCycle
    /\ UNCHANGED <<store, config, ingest, web, channel, race, edits, lastUpdate>>

ZoneDomains(data) == {data.zones[k].domain : k \in 1..Len(data.zones)}

\* the zones an Olm holds after a message: an "update" installs or replaces the zone
\* of each domain it carries, a "remove" deletes it
Installed(zones, m) ==
    IF m.type # "olm/dns/authority/config" THEN zones
    ELSE LET kept == {z \in zones : z.domain \notin ZoneDomains(m.data)}
         IN  IF m.data.action = "update" THEN kept \cup Range(m.data.zones)
             ELSE kept

RECURSIVE Delivered(_, _, _)
\* the zones of every Olm after msgs, those addressed to an Olm of dropped being lost
Delivered(h, msgs, dropped) ==
    IF msgs = <<>> THEN h
    ELSE LET m == Head(msgs)
         IN  Delivered(IF m.to \in OlmIds /\ m.to \notin dropped
                       THEN [h EXCEPT ![m.to] = Installed(@, m)]
                       ELSE h,
                       Tail(msgs), dropped)

\* updateDNSAuthorityForResource(r) whose messages to the Olms of dropped are lost
DispatchOverBus(r, dropped) ==
    /\ sent < MaxSent
    /\ sent' = sent + 1
    /\ dropped \subseteq Recipients(updateDNSAuthorityForResource(r)) \cap OlmIds
    /\ out' = updateDNSAuthorityForResource(r)
    /\ held' = Delivered(held, out', dropped)
    /\ lost' = [o \in OlmIds |-> lost[o] \/ o \in dropped]
    /\ called' = <<r>>
    /\ lastOp' = Op("updateDNSAuthorityForResource", r)
    /\ lastUpdate' = LastDispatched(<<r>>, lastUpdate)
    /\ repeat' = <<>>
    /\ cycle' = NoCycle
    /\ UNCHANGED <<store, config, ingest, web, race, edits, sendFault, lastAuthProxy>>

\* an Olm reconnects: its sync is delivered whole
ReconnectSync(i) ==
    /\ sent < MaxSent
    /\ sent' = sent + 1
    /\ out' = sendOlmSyncMessage(olms[i], clients[olms[i].clientId])
    /\ held' = Delivered(held, out', {})
    /\ called' = <<>>
    /\ lastOp' = Op("sendOlmSyncMessage", olms[i].clientId)
    /\ repeat' = <<>>
    /\ cycle' = NoCycle
    /\ UNCHANGED <<store, config, ingest, web, race, edits, lastUpdate, lost, sendFault,
                   lastAuthProxy>>

\* the Newt loop of updateDNSAuthorityForResource with the config read earlier
NewtSends(resourceId, cfg) ==
    LET newtSites == getDNSAuthoritySiteNewtIds(resourceId)
    IN  IF cfg # NullConfig
        THEN [i \in 1..Len(newtSites) |->
                sendDNSAuthorityConfigToNewt(newtSites[i].newtId, UpdateZones(cfg))]
        ELSE IF ResourceKnown(resourceId)
        THEN [i \in 1..Len(newtSites) |->
                sendDNSAuthorityConfigToNewt(newtSites[i].newtId,
                    RemoveZones(resources[resourceId].fullDomain))]
        ELSE <<>>

\* the Olm loop of updateDNSAuthorityForResource with the config read earlier
OlmSends(resourceId, cfg) ==
    LET olmIds == getDNSAuthoritySiteOlmIds(resourceId)
    IN  IF cfg # NullConfig
        THEN [i \in 1..Len(olmIds) |->
                sendDNSAuthorityConfigToOlm(olmIds[i], UpdateZones(cfg))]
        ELSE IF ResourceKnown(resourceId)
        THEN [i \in 1..Len(olmIds) |->
                sendDNSAuthorityConfigToOlm(olmIds[i],
                    RemoveZones(resources[resourceId].fullDomain))]
        ELSE <<>>

RECURSIVE Landed(_, _)
\* the last zone message per agent and domain after msgs are delivered in order
Landed(d, msgs) ==
    IF msgs = <<>> THEN d
    ELSE LET m == Head(msgs)
             doms == ZoneDomains(m.data)
         IN  Landed([d EXCEPT ![m.to] =
                        {e \in @ : e.domain \notin doms}
                            \cup {[domain |-> x, data |-> m.data] : x \in doms}],
                    Tail(msgs))

\* a handler saves a target's enabled flag, then starts updateDNSAuthorityForResource
SetTargetEnabledThenUpdate(c, t, enabled) ==
    /\ edits < MaxEdits
    /\ call[c] = NoCall
    /\ t \in DOMAIN targets
    /\ enabled # targets[t].enabled
    /\ targets' = [targets EXCEPT ![t].enabled = enabled]
    /\ edits' = edits + 1
    /\ call' = [call EXCEPT ![c] = [pc |-> "start", r |-> targets[t].resourceId]]
    /\ changed' = changed \cup {targets[t].resourceId}
    /\ UNCHANGED <<sites, resources, targetHealthCheck, config, ingest, web, channel,
                   delivered, out, called, lastOp, lastUpdate, repeat, cycle>>

\* a handler saves a resource's DNS-authority switch, then starts the update
SaveResourceThenUpdate(c, r, dnsAuthorityEnabled) ==
    /\ edits < MaxEdits
    /\ call[c] = NoCall
    /\ r \in DOMAIN resources
    /\ dnsAuthorityEnabled # resources[r].dnsAuthorityEnabled
    /\ resources' = [resources EXCEPT ![r].dnsAuthorityEnabled = dnsAuthorityEnabled]
    /\ edits' = edits + 1
    /\ call' = [call EXCEPT ![c] = [pc |-> "start", r |-> r]]
    /\ changed' = changed \cup {r}
    /\ UNCHANGED <<sites, targets, targetHealthCheck, config, ingest, web, channel,
                   delivered, out, called, lastOp, lastUpdate, repeat, cycle>>

\* a running call reads the zone config
CallBuildConfig(c) ==
    /\ call[c].pc = "start"
    /\ call' = [call EXCEPT ![c] = [pc |-> "built", r |-> call[c].r,
                                      cfg |-> buildDNSAuthorityConfig(call[c].r)]]
    /\ UNCHANGED <<store, config, ingest, web, channel, edits, delivered, changed,
                   out, called, lastOp, lastUpdate, repeat, cycle>>

\* a running call reads the Newt recipients and sends to them
CallSendNewts(c) ==
    /\ call[c].pc = "built"
    /\ out' = NewtSends(call[c].r, call[c].cfg)
    /\ delivered' = Landed(delivered, out')
    /\ call' = [call EXCEPT ![c].pc = "newts"]
    /\ UNCHANGED <<store, config, ingest, web, channel, edits, changed,
                   called, lastOp, lastUpdate, repeat, cycle>>

\* a running call reads the Olm recipients, sends to them and returns
CallSendOlms(c) ==
    /\ call[c].pc = "newts"
    /\ out' = OlmSends(call[c].r, call[c].cfg)
    /\ delivered' = Landed(delivered, out')
    /\ call' = [call EXCEPT ![c] = NoCall]
    /\ UNCHANGED <<store, config, ingest, web, channel, edits, changed,
                   called, lastOp, lastUpdate, repeat, cycle>>

\* GET /auth/session/validate
ValidateSession(req) ==
    /\ request' = req
    /\ response' = validateSession(req)
    /\ UNCHANGED <<store, config, ingest, channel, race, edits, out, called, lastOp,
                   lastUpdate, repeat, cycle>>

\* the module variables and files of the keypair loader become those of k
KeyStoreBecomes(k) ==
    /\ privateKeyFile' = k.privateKeyFile
    /\ publicKeyFile' = k.publicKeyFile
    /\ cachedPrivateKey' = k.cachedPrivateKey
    /\ cachedPublicKeyPem' = k.cachedPublicKeyPem
    /\ generated' = k.generated

KeyCalled(name, res) ==
    /\ KeyStoreBecomes(res.store)
    /\ keyCall' = [op |-> name, privateBefore |-> privateKeyFile,
                   publicBefore |-> publicKeyFile, result |-> res.result]
    /\ UNCHANGED <<store, dashboardUrl, out, lastOp, lastUpdate, repeat, cycle, ingest,
                   edits, called, web, channel, race>>

\* the controller process starts: the module is loaded with both caches null
LoadKeypairModule ==
    /\ cachedPrivateKey # NULL \/ cachedPublicKeyPem # NULL
    /\ KeyCalled("load module", [store |-> [KeyStore EXCEPT !.cachedPrivateKey = NULL,
                                                            !.cachedPublicKeyPem = NULL],
                                 result |-> NullPair])

\* a key file is removed or overwritten from outside the controller
KeyFileChanged(private, content) ==
    /\ IF private THEN content # privateKeyFile ELSE content # publicKeyFile
    /\ KeyCalled("file changed",
                 [store |-> IF private THEN [KeyStore EXCEPT !.privateKeyFile = content]
                            ELSE [KeyStore EXCEPT !.publicKeyFile = content],
                  result |-> NullPair])

\* runSetupFunctions: ensureJwtKeypair
EnsureJwtKeypair ==
    /\ ensureJwtKeypair(KeyStore).store.generated <= MaxKeys
    /\ KeyCalled("ensureJwtKeypair", ensureJwtKeypair(KeyStore))

\* a startup whose ensureJwtKeypair generates, and the controller crashes
\* between the two key-file writes
EnsureJwtKeypairCrashed ==
    /\ loadJwtKeypair(KeyStore).result = NullPair
    /\ generated < MaxKeys
    /\ KeyCalled("crash", generateJwtKeypairCrashed(KeyStore))

GetJwtPublicKeyPem ==
    KeyCalled("getJwtPublicKeyPem", getJwtPublicKeyPemAt(KeyStore))

Next ==
    \/ \E s \in SiteIds, b \in BOOLEAN : SaveSiteGeneral(s, SiteIp(s), b)
    \/ \E s \in SiteIds : SaveSiteGeneral(s, "", FALSE)
    \/ \E r \in ResourceIds, b \in BOOLEAN : SaveResourceDNSAuthority(r, b)
    \/ \E t \in DOMAIN targets, b \in BOOLEAN : SetTargetEnabled(t, b)
    \/ \E r \in ResourceIds : UpdateDNSAuthorityForResource(r)
    \/ \E i \in 1..Len(olms) : SendOlmSyncMessage(i)
    \/ \E s \in SiteIds : UpdateAuthProxyForSite(s)

Spec == Init /\ [][Next]_vars

NextHealth ==
    \/ \E n \in 1..Len(newts), b \in Batches :
            HandleHealthcheckStatusMessage(n, TRUE, TRUE, b, NoFault)
    \/ \E n \in 1..Len(newts) :
            HandleHealthcheckStatusMessage(n, TRUE, FALSE, <<>>, NoFault)

SpecHealth == Init /\ [][NextHealth]_vars

\* the handler on a message whose handling meets a fault, or that carries no data
HandleFaultyStatusMessage(n, hasData, batch, fault) ==
    /\ reports < MaxFaulty
    /\ HandleHealthcheckStatusMessage(n, hasData, hasData, batch, fault)

NextHealthFault ==
    \/ \E n \in 1..Len(newts), b \in Batches, f \in Faults \ {NoFault} :
            HandleFaultyStatusMessage(n, TRUE, b, f)
    \/ \E n \in 1..Len(newts) : HandleFaultyStatusMessage(n, FALSE, <<>>, NoFault)

SpecHealthFault == Init /\ [][NextHealthFault]_vars

NextSession == \E req \in Requests : ValidateSession(req)

SpecSession == Init /\ [][NextSession]_vars

\* operator edits and the auth-proxy reconciler
NextAuthProxy ==
    \/ \E s \in SiteIds, b \in BOOLEAN : SaveSiteGeneral(s, SiteIp(s), b)
    \/ \E r \in ResourceIds, b \in BOOLEAN : SaveResourceDNSAuthority(r, b)
    \/ \E t \in DOMAIN targets, b \in BOOLEAN : SetTargetEnabled(t, b)
    \/ \E s \in SiteIds : UpdateAuthProxyForSite(s)
    \/ \E r \in ResourceIds : UpdateAuthProxyForResource(r)

SpecAuthProxy == Init /\ [][NextAuthProxy]_vars

SpecAuthProxyHosts == InitHosts /\ [][NextAuthProxy]_vars

\* operator edits, dispatches over a lossy bus and reconnect syncs
NextBus ==
    \/ \E r \in ResourceIds, b \in BOOLEAN : SaveResourceDNSAuthority(r, b)
    \/ \E t \in DOMAIN targets, b \in BOOLEAN : SetTargetEnabled(t, b)
    \/ \E r \in ResourceIds, d \in SUBSET OlmIds : DispatchOverBus(r, d)
    \/ \E i \in 1..Len(olms) : ReconnectSync(i)

SpecBus == Init /\ [][NextBus]_vars

\* edits each followed by an updateDNSAuthorityForResource call, the calls interleaved
NextRace ==
    \/ \E c \in Slots, t \in DOMAIN targets, b \in BOOLEAN :
            SetTargetEnabledThenUpdate(c, t, b)
    \/ \E c \in Slots, r \in ResourceIds, b \in BOOLEAN : SaveResourceThenUpdate(c, r, b)
    \/ \E c \in Slots : CallBuildConfig(c)
    \/ \E c \in Slots : CallSendNewts(c)
    \/ \E c \in Slots : CallSendOlms(c)

SpecRace == Init /\ [][NextRace]_vars

\* operator edits and direct health notifications
\* the recipients and the kinds of failure of one operation
FailingSets(among) == {F \in SUBSET among : Cardinality(F) <= MaxFailing}
SyncFailures == {"olm/sync", "olm/dns/authority/config", "store"}

\* updateDNSAuthorityForResource(r) while the sends to some of its recipients reject
UpdateDNSAuthorityForResourceRejecting(r) ==
    \E failing \in FailingSets(Recipients(updateDNSAuthorityForResource(r))) :
        UpdateDNSAuthorityForResourceUnder(r, failing)

NextSend ==
    \/ \E r \in ResourceIds, b \in BOOLEAN : SaveResourceDNSAuthority(r, b)
    \/ \E r \in ResourceIds : UpdateDNSAuthorityForResourceRejecting(r)
    \/ \E i \in 1..Len(olms) : \E failing \in FailingSets(SyncFailures) :
            SendOlmSyncMessageUnder(i, failing)

SpecSend == Init /\ [][NextSend]_vars

NextGate ==
    \/ \E r \in ResourceIds, b \in BOOLEAN : SaveResourceDNSAuthority(r, b)
    \/ \E t \in DOMAIN targets, b \in BOOLEAN : SetTargetEnabled(t, b)
    \/ \E s \in SiteIds : UpdateAuthProxyForSiteDelivered(s)

SpecGate == Init /\ [][NextGate]_vars

\* the handler on a report that carries the config of its health check
HandleStatusMessageWithConfig(n, batch) ==
    /\ reports < MaxConfigReports
    /\ HandleHealthcheckStatusMessage(n, TRUE, TRUE, batch, NoFault)

\* the requests of a signed-in, a signed-out and an unserved caller
FrameRequests ==
    {req \in Requests : /\ req.p_session \in {"tokA", NULL}
                        /\ ~req.authorization.set
                        /\ req.now = 0
                        /\ req.fault \in {"none", "sessions"}}

\* every operation of the core, without operator edits
NextFrame ==
    \/ \E r \in ResourceIds : UpdateDNSAuthorityForResource(r)
    \/ \E t \in {1, 3, 9} : OnHealthCheckUpdate(<<t>>)
    \/ \E s \in SiteIds : UpdateAuthProxyForSite(s)
    \/ \E r \in ResourceIds : UpdateAuthProxyForResource(r)
    \/ \E i \in 1..Len(olms) : SendOlmSyncMessage(i)
    \/ \E req \in FrameRequests : ValidateSession(req)
    \/ \E n \in 1..Len(newts), b \in ConfigBatches : HandleStatusMessageWithConfig(n, b)

SpecFrame == Init /\ [][NextFrame]_vars

NextKeypair ==
    \/ LoadKeypairModule
    \/ \E content \in {NULL, Garbage} : KeyFileChanged(TRUE, content)
    \/ \E content \in {NULL, ""} : KeyFileChanged(FALSE, content)
    \/ EnsureJwtKeypair
    \/ GetJwtPublicKeyPem

SpecKeypair == Init /\ [][NextKeypair]_vars

\* startups, crashes between the key-file writes, and the loss of a key file
NextKeypairCrash ==
    \/ LoadKeypairModule
    \/ \E private \in BOOLEAN : KeyFileChanged(private, NULL)
    \/ EnsureJwtKeypair
    \/ EnsureJwtKeypairCrashed

SpecKeypairCrash == Init /\ [][NextKeypairCrash]_vars

NextNotify ==
    \/ \E r \in ResourceIds, b \in BOOLEAN : SaveResourceDNSAuthority(r, b)
    \/ \E t \in DOMAIN targets, b \in BOOLEAN : SetTargetEnabled(t, b)
    \/ \E ids \in TargetIdLists : OnHealthCheckUpdate(ids)

SpecNotify == Init /\ [][NextNotify]_vars

----------------------------------------------------------------------------
(* The derived views of the data model, stated on the tables *)

UpdateOp(r) == Op("updateDNSAuthorityForResource", r)

\* sites hosting an enabled target of r, with DNS authority enabled and a public IP
DnsAuthoritySites(r) ==
    {s \in DOMAIN sites :
        /\ sites[s].dnsAuthorityEnabled
        /\ sites[s].publicIp # NULL
        /\ \E t \in DOMAIN targets : /\ targets[t].resourceId = r
                                     /\ targets[t].siteId = s
                                     /\ targets[t].enabled}

NewtsOfSites(S) == {newts[i].newtId : i \in {j \in 1..Len(newts) : newts[j].siteId \in S}}

NewtRecipients(r) == NewtsOfSites(DnsAuthoritySites(r))

OlmRecipients(r) ==
    {clients[a.clientId].olmId :
        a \in {x \in Range(clientSitesAssociationsCache) : x.siteId \in DnsAuthoritySites(r)}}
    \ {NULL}

IsDnsUpdate(m) ==
    /\ m.type \in {"newt/dns/authority/config", "olm/dns/authority/config"}
    /\ m.data.action = "update"

IsDnsRemove(m) ==
    /\ m.type \in {"newt/dns/authority/config", "olm/dns/authority/config"}
    /\ m.data.action = "remove"

\* the zone configs carried by the messages of the last operation
SentZones == UNION {Range(out[i].data.zones) : i \in {j \in 1..Len(out) : IsDnsUpdate(out[j])}}

ResourceOfDomain(d) == CHOOSE r \in DOMAIN resources : resources[r].fullDomain = d

Retained(r) ==
    {t \in DOMAIN targets :
        /\ targets[t].resourceId = r
        /\ targets[t].enabled
        /\ targets[t].siteId \in DOMAIN sites
        /\ sites[targets[t].siteId].dnsAuthorityEnabled
        /\ sites[targets[t].siteId].publicIp # NULL}

HostsProtected(s) ==
    \E t \in DOMAIN targets :
        /\ targets[t].siteId = s
        /\ targets[t].enabled
        /\ targets[t].resourceId \in DOMAIN resources
        /\ LET r == resources[targets[t].resourceId]
           IN  r.dnsAuthorityEnabled /\ (r.sso \/ r.blockAccess \/ r.emailWhitelistEnabled)

AuthProxySentTo(s) ==
    \E k \in 1..Len(out) : /\ out[k].type = "newt/auth/proxy/config"
                           /\ out[k].to \in NewtsOfSites({s})

Addressees(msgs) == {<<msgs[i].to, msgs[i].type>> : i \in 1..Len(msgs)}

----------------------------------------------------------------------------
(* Claims *)

\* C1: when updateDNSAuthorityForResource(R) dispatches a non-null zone config, the
\* agents sent the "update" are exactly the Newts of the DNS-authority sites of R
\* and the Olms owning a client associated with such a site.
C1_UpdateRecipients ==
    \A r \in ResourceIds :
        (lastOp = UpdateOp(r) /\ buildDNSAuthorityConfig(r) # NullConfig) =>
            /\ \A i \in 1..Len(out) :
                    /\ IsDnsUpdate(out[i])
                    /\ out[i].data.zones = <<buildDNSAuthorityConfig(r)>>
            /\ {out[i].to : i \in {j \in 1..Len(out) :
                    out[j].type = "newt/dns/authority/config"}} = NewtRecipients(r)
            /\ {out[i].to : i \in {j \in 1..Len(out) :
                    out[j].type = "olm/dns/authority/config"}} = OlmRecipients(r)

C1_Witness ==
    \E r \in ResourceIds :
        /\ lastOp = UpdateOp(r)
        /\ buildDNSAuthorityConfig(r) # NullConfig
        /\ NewtRecipients(r) # {} /\ OlmRecipients(r) # {}
        /\ out # <<>>
        /\ \E t \in DOMAIN targets : /\ targets[t].resourceId = r
                                     /\ ~targets[t].enabled
                                     /\ targets[t].siteId \notin DnsAuthoritySites(r)
                                     /\ NewtsOfSites({targets[t].siteId}) # {}

\* C2: a healthcheck/status entry whose target is missing or on another site than the
\* reporting Newt's changes no TargetHealth row; it is counted as an error.
C2_ForeignNeverMutates ==
    [][ /\ \A t \in DOMAIN targetHealthCheck :
                targetHealthCheck'[t] # targetHealthCheck[t] =>
                    \E i \in 1..Len(inMsg'.targets) :
                        /\ parseInt(inMsg'.targets[i].key) = t
                        /\ t \in DOMAIN targets
                        /\ targets[t].siteId = newts[inMsg'.newt].siteId
        /\ (newts[inMsg'.newt].siteId # NullInt /\ inMsg'.hasTargets) =>
                errorCount' = Cardinality({i \in 1..Len(inMsg'.targets) :
                    LET t == parseInt(inMsg'.targets[i].key)
                    IN  t \notin DOMAIN targets
                            \/ targets[t].siteId # newts[inMsg'.newt].siteId})
      ]_vars

C2_Witness ==
    /\ inMsg.newt = 2
    /\ Len(inMsg.targets) = 2
    /\ inMsg.targets[1].key = <<"1">> /\ inMsg.targets[2].key = <<"3">>
    /\ inMsg.targets[1].status # InitTargetHealthCheck[1].hcHealth
    /\ targetHealthCheck[1] = InitTargetHealthCheck[1]
    /\ targetHealthCheck[3].hcHealth = inMsg.targets[2].status
    /\ errorCount = 1

\* C3: in every zone config sent, each targets[i].ip is the publicIp of a site with
\* dnsAuthorityEnabled (the site of the entry), never the internal ip of a target.
C3_AnswerIpIsSitePublicIp ==
    \A z \in SentZones : \A k \in 1..Len(z.targets) :
        LET e == z.targets[k]
        IN  /\ \E s \in DOMAIN sites : sites[s].dnsAuthorityEnabled /\ sites[s].publicIp = e.ip
            /\ e.siteId \in DOMAIN sites
            /\ e.ip = sites[e.siteId].publicIp
            /\ \A t \in DOMAIN targets : targets[t].ip # e.ip

C3_Witness ==
    /\ lastOp.op = "sendOlmSyncMessage"
    /\ \E z \in SentZones : Len(z.targets) >= 2
    /\ Cardinality(SentZones) >= 2

\* C4: in every zone config sent for resource R, each targets[i].siteId is a site that
\* hosts at least one enabled target of R.
C4_ZoneSiteHostsEnabledTarget ==
    \A z \in SentZones : \A k \in 1..Len(z.targets) :
        \E t \in DOMAIN targets :
            /\ targets[t].resourceId = ResourceOfDomain(z.domain)
            /\ targets[t].enabled
            /\ targets[t].siteId = z.targets[k].siteId

C4_Witness ==
    /\ lastOp = UpdateOp(1)
    /\ ~targets[3].enabled
    /\ sites[2].dnsAuthorityEnabled
    /\ \E z \in SentZones : z.domain = resources[1].fullDomain /\ Len(z.targets) = 2

\* C5: after sendOlmSyncMessage for an Olm, its olm/dns/authority/config message has a
\* zone entry for every DNS-authority resource whose Olm recipients contain that Olm.
C5_SyncCoversRecipientResources ==
    \A i \in 1..Len(olms) :
        lastOp = Op("sendOlmSyncMessage", olms[i].clientId) =>
            \A r \in DOMAIN resources :
                (/\ resources[r].dnsAuthorityEnabled
                 /\ Truthy(resources[r].fullDomain)
                 /\ olms[i].olmId \in OlmRecipients(r)) =>
                    \E k \in 1..Len(out) :
                        /\ out[k].to = olms[i].olmId
                        /\ out[k].type = "olm/dns/authority/config"
                        /\ out[k].data.action = "update"
                        /\ buildDNSAuthorityConfig(r) # NullConfig
                        /\ buildDNSAuthorityConfig(r) \in Range(out[k].data.zones)

C5_Witness ==
    /\ lastOp = Op("sendOlmSyncMessage", 1)
    /\ "o1" \in OlmRecipients(1) /\ "o1" \in OlmRecipients(2)
    /\ resources[1].dnsAuthorityEnabled /\ resources[2].dnsAuthorityEnabled
    /\ Len(out) = 2

\* C6 as stated: updateAuthProxyForSite(s) sends newt/auth/proxy/config to the Newt of
\* s if and only if s hosts an enabled target of a protected DNS-authority resource.
C6_SentIffHostsProtected ==
    \A s \in SiteIds :
        lastOp = Op("updateAuthProxyForSite", s) => (AuthProxySentTo(s) <=> HostsProtected(s))

\* C6 amended: updateAuthProxyForSite(s) sends newt/auth/proxy/config to the Newt of s
\* if and only if s has a Newt, app.dashboard_url is configured and s hosts an enabled
\* target of a protected DNS-authority resource; it sends nothing else.
C6_SentIffHostsProtectedAndConfigured ==
    \A s \in SiteIds :
        lastOp = Op("updateAuthProxyForSite", s) =>
            /\ AuthProxySentTo(s) <=>
                    (HostsProtected(s) /\ dashboardUrl # NoUrl /\ NewtsOfSites({s}) # {})
            /\ Len(out) <= 1
            /\ \A k \in 1..Len(out) : out[k].type = "newt/auth/proxy/config"

C6_Witness ==
    /\ lastOp = Op("updateAuthProxyForSite", 2)
    /\ AuthProxySentTo(2)
    /\ dashboardUrl # NoUrl
    /\ \E t \in DOMAIN targets : /\ targets[t].siteId = 2 /\ targets[t].enabled
                                 /\ ~resources[targets[t].resourceId].sso

C8_RemoveReachesLastKnown ==
    \A r \in DOMAIN resources :
        (/\ lastOp = UpdateOp(r)
         /\ buildDNSAuthorityConfig(r) = NullConfig
         /\ Truthy(resources[r].fullDomain)
         /\ lastUpdate.r = r) => lastUpdate.to = {}

\* C9: disabling DNS authority on R, updating, enabling it again and updating (nothing
\* else changed) sends "remove" then "update", both to the same Newts and Olms.
C9_RemoveThenUpdateSameRecipients ==
    cycle.phase = 4 =>
        /\ \A i \in 1..Len(cycle.first) : IsDnsRemove(cycle.first[i])
        /\ \A i \in 1..Len(out) : IsDnsUpdate(out[i])
        /\ Addressees(cycle.first) = Addressees(out)

C9_Witness ==
    /\ cycle.phase = 4
    /\ \E i \in 1..Len(out) : out[i].type = "newt/dns/authority/config"
    /\ \E i \in 1..Len(out) : out[i].type = "olm/dns/authority/config"
    /\ \E i \in 1..Len(cycle.first) : cycle.first[i].data.action = "remove"

\* C10: buildDNSAuthorityConfig(R) is null exactly when R is missing, has DNS authority
\* off, has no fullDomain or has no retained target; otherwise it has one entry per
\* retained target, domain R.fullDomain, ttl defaulting to 60, routingPolicy to failover.
C10_ConfigNullExactly ==
    \A r \in ResourceIds :
        LET c == buildDNSAuthorityConfig(r)
        IN  /\ c = NullConfig <=>
                    \/ r \notin DOMAIN resources
                    \/ ~resources[r].dnsAuthorityEnabled
                    \/ resources[r].fullDomain \in {NULL, ""}
                    \/ Retained(r) = {}
            /\ c # NullConfig =>
                    /\ Len(c.targets) = Cardinality(Retained(r))
                    /\ {c.targets[k].siteId : k \in 1..Len(c.targets)}
                            = {targets[t].siteId : t \in Retained(r)}
                    /\ c.enabled
                    /\ c.domain = resources[r].fullDomain
                    /\ c.ttl = IF resources[r].dnsAuthorityTtl = NullInt
                               THEN 60 ELSE resources[r].dnsAuthorityTtl
                    /\ c.routingPolicy = IF resources[r].dnsAuthorityRoutingPolicy = NULL
                                         THEN "failover"
                                         ELSE resources[r].dnsAuthorityRoutingPolicy

C10_Witness ==
    /\ lastOp = UpdateOp(1)
    /\ Cardinality(Retained(1)) = 2
    /\ \E t \in DOMAIN targets : targets[t].resourceId = 1 /\ t \notin Retained(1)
    /\ resources[1].dnsAuthorityTtl = NullInt
    /\ buildDNSAuthorityConfig(3) = NullConfig /\ Retained(3) # {}
    /\ \E i \in 1..Len(out) : out[i].data.zones[1].ttl = 60

\* C11: onHealthCheckUpdate(targetIds) runs updateDNSAuthorityForResource exactly once
\* for each resource with dnsAuthorityEnabled that is the resource of a listed target,
\* and for no other resource, however many listed targets share a resource.
C11_OncePerEnabledResource ==
    lastOp.op = "onHealthCheckUpdate" =>
        \A r \in ResourceIds \cup Range(called) :
            Cardinality({k \in 1..Len(called) : called[k] = r}) =
                IF /\ r \in DOMAIN resources
                   /\ resources[r].dnsAuthorityEnabled
                   /\ \E i \in 1..Len(lastOp.targetIds) :
                        /\ lastOp.targetIds[i] \in DOMAIN targets
                        /\ targets[lastOp.targetIds[i]].resourceId = r
                THEN 1 ELSE 0

C11_Witness ==
    /\ lastOp = [op |-> "onHealthCheckUpdate", targetIds |-> <<1, 2>>]
    /\ called = <<1>>
    /\ ~resources[2].dnsAuthorityEnabled
    /\ out # <<>>

C11_WitnessSkipped ==
    /\ lastOp = [op |-> "onHealthCheckUpdate", targetIds |-> <<4, 9>>]
    /\ ~resources[2].dnsAuthorityEnabled
    /\ called = <<>>

\* C12: for every target and every hcHealth value, giving the target that value changes
\* nothing of any zone config but the healthy flag of the target's entry: the entries,
\* their ip, priority and siteId, and the agents addressed stay the same; the flag is
\* true when hcEnabled is false, and (hcHealth = "healthy") when hcEnabled is true.
C12_HealthChangesOnlyFlag ==
    \A r \in ResourceIds : \A t \in DOMAIN targetHealthCheck : \A h \in Statuses :
        LET thc == [targetHealthCheck EXCEPT ![t].hcHealth = h]
            a == buildDNSAuthorityConfig(r)
            b == buildDNSAuthorityConfigAt(r, thc)
            ids == SetToSeq(Retained(r))
        IN  /\ a = NullConfig <=> b = NullConfig
            /\ a # NullConfig =>
                    /\ Len(b.targets) = Len(a.targets)
                    /\ Len(b.targets) = Len(ids)
                    /\ b.domain = a.domain /\ b.ttl = a.ttl
                    /\ b.routingPolicy = a.routingPolicy
                    /\ \A k \in 1..Len(b.targets) :
                            /\ b.targets[k].ip = a.targets[k].ip
                            /\ b.targets[k].priority = a.targets[k].priority
                            /\ b.targets[k].siteId = a.targets[k].siteId
                            /\ ids[k] # t => b.targets[k].healthy = a.targets[k].healthy
                            /\ b.targets[k].healthy =
                                    IF thc[ids[k]].hcEnabled
                                    THEN thc[ids[k]].hcHealth = "healthy"
                                    ELSE TRUE
            /\ Addressees(updateDNSAuthorityForResourceAt(r, thc))
                    = Addressees(updateDNSAuthorityForResource(r))

C12_Witness ==
    /\ lastOp = Op("handleHealthcheckStatusMessage", 1)
    /\ targetHealthCheck[1].hcHealth = "unhealthy"
    /\ InitTargetHealthCheck[1].hcHealth = "healthy"
    /\ ~targetHealthCheck[2].hcEnabled
    /\ \E i \in 1..Len(out) :
            /\ IsDnsUpdate(out[i])
            /\ Len(out[i].data.zones[1].targets) = 3
            /\ ~out[i].data.zones[1].targets[1].healthy
            /\ out[i].data.zones[1].targets[2].healthy

\* C16 as stated: in one healthcheck/status batch, a failure on one entry (unparsable
\* id, foreign or missing target, store error on its lookup or update) leaves every
\* other entry that passes the tenancy check with its hcHealth updated.
C16_OtherEntriesStillProcessed ==
    (/\ lastOp.op = "handleHealthcheckStatusMessage"
     /\ newts[inMsg.newt].siteId # NullInt
     /\ inMsg.hasData /\ inMsg.hasTargets) =>
        \A i \in 1..Len(inMsg.targets) :
            LET t == parseInt(inMsg.targets[i].key)
            IN  (/\ i # inMsg.fault.at
                 /\ t \in DOMAIN targets
                 /\ targets[t].siteId = newts[inMsg.newt].siteId) =>
                    targetHealthCheck[t].hcHealth = inMsg.targets[i].status

\* C17 as stated: whatever the payload of a healthcheck/status message and whatever
\* fails while it is handled, the handler completes without raising an error.
C17_NeverRaises ==
    lastOp.op = "handleHealthcheckStatusMessage" => ~raised

\* the token a request supplies, read off the request
SuppliedToken ==
    IF request.p_session \notin {NULL, ""} THEN request.p_session
    ELSE IF ~request.authorization.set THEN NULL
    ELSE LET ps == request.authorization.parts
         IN  IF ps = <<>> THEN ""
             ELSE IF ps[1] = "Bearer " THEN Concat(Tail(ps))
             ELSE Concat(ps)

LiveSessions ==
    {i \in 1..Len(sessions) : /\ sessions[i].sessionToken = SuppliedToken
                               /\ sessions[i].expiresAt > request.now}

\* C13: without an internal error, validateSession answers valid: true exactly when a
\* token was supplied, a session has that token and expires strictly after now, and
\* the session's user exists; userId and email are that user's. Otherwise {valid: false}.
C13_ValidIffLiveSessionAndUser ==
    (request # NoRequest /\ response.status # HttpCodeInternalServerError) =>
        LET ok == /\ SuppliedToken \notin {NULL, ""}
                  /\ \E i \in LiveSessions : \E j \in 1..Len(users) :
                        users[j].userId = sessions[i].userId
        IN  /\ response.data.valid <=> ok
            /\ ~ok => response.data = [valid |-> FALSE]
            /\ ok => \E i \in LiveSessions : \E j \in 1..Len(users) :
                        /\ users[j].userId = sessions[i].userId
                        /\ response.data = [valid |-> TRUE,
                                            userId |-> users[j].userId,
                                            email |-> users[j].email,
                                            expiresAt |-> toISOString(sessions[i].expiresAt)]

C13_Witness ==
    /\ request # NoRequest
    /\ request.p_session = ""
    /\ request.authorization.parts = <<"Bearer ", "tokA">>
    /\ request.now = 1
    /\ response.data.valid
    /\ response.data.email = "a@x"

C13_WitnessExpiredNow ==
    /\ request # NoRequest
    /\ request.p_session = "tokA"
    /\ request.now = 2
    /\ request.fault = "none"
    /\ response.data = [valid |-> FALSE]

\* C14: validateSession responds 200 whenever no lookup fails, valid or not, and 500
\* with {valid: false} exactly when a store lookup fails; never 401.
C14_Status200Unless500OnFault ==
    request # NoRequest =>
        LET lookupFails ==
                \/ request.fault = "sessions" /\ SuppliedToken \notin {NULL, ""}
                \/ request.fault = "users" /\ SuppliedToken \notin {NULL, ""}
                                           /\ LiveSessions # {}
        IN  /\ response.status = IF lookupFails THEN 500 ELSE 200
            /\ lookupFails => response.data = [valid |-> FALSE]
            /\ response.status = 500 => ~response.data.valid

C14_Witness ==
    /\ request # NoRequest
    /\ request.fault = "users"
    /\ request.p_session = "tokB"
    /\ request.now = 2
    /\ response.status = 500
    /\ response.data = [valid |-> FALSE]

C14_WitnessInvalid200 ==
    /\ request # NoRequest
    /\ request.fault = "users"
    /\ request.p_session = "tokC"
    /\ request.now = 2
    /\ response.status = 200
    /\ ~response.data.valid

\* C15: sendOlmSyncMessage for an Olm whose client is associated with a site serving a
\* DNS-authority resource sends olm/sync first and the olm/dns/authority/config
\* "update" after it, both to that Olm; no zone message ever precedes the olm/sync.
C15_SyncBeforeZones ==
    \A i \in 1..Len(olms) :
        lastOp = Op("sendOlmSyncMessage", olms[i].clientId) =>
            /\ (\E r \in DOMAIN resources :
                    /\ buildDNSAuthorityConfig(r) # NullConfig
                    /\ olms[i].olmId \in OlmRecipients(r)) =>
                        \E j, k \in 1..Len(out) :
                            /\ j < k
                            /\ out[j].to = olms[i].olmId /\ out[j].type = "olm/sync"
                            /\ out[k].to = olms[i].olmId /\ IsDnsUpdate(out[k])
            /\ \A k \in 1..Len(out) :
                    out[k].type = "olm/dns/authority/config" =>
                        \E j \in 1..(k - 1) : out[j].type = "olm/sync"

C15_Witness ==
    /\ lastOp = Op("sendOlmSyncMessage", 1)
    /\ "o1" \in OlmRecipients(1)
    /\ buildDNSAuthorityConfig(1) # NullConfig
    /\ Len(out) = 2
    /\ out[1].type = "olm/sync" /\ out[1].to = "o1"
    /\ out[2].type = "olm/dns/authority/config" /\ out[2].to = "o1"
    /\ edits > 0

\* sites hosting an enabled target of r
HostSites(r) == {targets[t].siteId : t \in {x \in DOMAIN targets :
                    targets[x].resourceId = r /\ targets[x].enabled}}

\* C18: updateAuthProxyForResource(R) sends exactly the messages that one
\* updateAuthProxyForSite(s) per distinct site s hosting an enabled target of R sends:
\* the same Newts, each once, with the same payload.
C18_ResourceEqualsPerSite ==
    \A r \in ResourceIds :
        lastOp = Op("updateAuthProxyForResource", r) =>
            /\ Range(out) = UNION {Range(updateAuthProxyForSite(s)) : s \in HostSites(r)}
            /\ \A i, j \in 1..Len(out) : i # j => out[i].to # out[j].to

C18_Witness ==
    /\ lastOp = Op("updateAuthProxyForResource", 1)
    /\ Cardinality({t \in DOMAIN targets : targets[t].resourceId = 1
                        /\ targets[t].siteId = 1 /\ targets[t].enabled}) = 2
    /\ HostSites(1) = {1, 2}
    /\ Len(out) = 2
    /\ out[1].to = "n1" /\ out[2].to = "n2"
    /\ out[1].data # out[2].data

\* the zones of the resources whose recipient set contains Olm o
ZonesFor(o) ==
    {buildDNSAuthorityConfig(r) : r \in {x \in DOMAIN resources :
        buildDNSAuthorityConfig(x) # NullConfig /\ o \in OlmRecipients(x)}}

\* C19 as stated: once a message to an Olm was dropped, after the Olm's next reconnect
\* sync (delivered, no state change since) the zones it holds are exactly the zones of
\* the resources whose recipient set contains it.
C19_SyncRestoresZones ==
    \A i \in 1..Len(olms) :
        (lastOp = Op("sendOlmSyncMessage", olms[i].clientId) /\ lost[olms[i].olmId]) =>
            held[olms[i].olmId] = ZonesFor(olms[i].olmId)

\* C20 as stated: every edit of R is followed by an updateDNSAuthorityForResource(R)
\* call, the calls interleave with each other and with edits; once all calls have
\* returned, the last zone message delivered to each recipient of R carries the zone
\* config built from the final state.
C20_LastDeliveredIsFinal ==
    (\A c \in Slots : call[c] = NoCall) =>
        \A r \in changed :
            buildDNSAuthorityConfig(r) # NullConfig =>
                \A a \in NewtRecipients(r) \cup OlmRecipients(r) :
                    \E e \in delivered[a] :
                        /\ e.domain = resources[r].fullDomain
                        /\ e.data = UpdateZones(buildDNSAuthorityConfig(r))

\* C21: after ensureJwtKeypair returns, both key files exist, the two module
\* variables hold the pair it returned, getJwtPublicKeyPem returns the content
\* of jwt_public.pem, and if either file was missing before the call both
\* files hold a keypair generated by the call.
C21_EnsureLeavesFilesAndCache ==
    keyCall.op = "ensureJwtKeypair" =>
        /\ privateKeyFile # NULL /\ publicKeyFile # NULL
        /\ cachedPrivateKey = keyCall.result.privateKey
        /\ cachedPublicKeyPem = keyCall.result.publicKeyPem
        /\ getJwtPublicKeyPem = publicKeyFile
        /\ (keyCall.privateBefore = NULL \/ keyCall.publicBefore = NULL) =>
                /\ privateKeyFile = PrivatePem(generated)
                /\ publicKeyFile = PublicPem(generated)
                /\ privateKeyFile # keyCall.privateBefore
                /\ publicKeyFile # keyCall.publicBefore

\* ensureJwtKeypair was called with jwt_public.pem missing and jwt_private.pem present
C21_Witness ==
    /\ keyCall.op = "ensureJwtKeypair"
    /\ keyCall.publicBefore = NULL /\ keyCall.privateBefore = PrivatePem(1)
    /\ privateKeyFile = PrivatePem(2) /\ publicKeyFile = PublicPem(2)

\* ensureJwtKeypair was called with both files present and loaded them
C21_WitnessLoaded ==
    /\ keyCall.op = "ensureJwtKeypair"
    /\ keyCall.privateBefore = privateKeyFile /\ keyCall.publicBefore = publicKeyFile
    /\ keyCall.privateBefore = PrivatePem(2)

\* the auth-proxy configs the last operation handed to sendToClient
AuthProxyConfigs ==
    {out[i].data : i \in {j \in 1..Len(out) : out[j].type = "newt/auth/proxy/config"}}

\* C22: in every emitted AuthConfig, cookieDomain is "." followed by the last
\* two labels of the dashboard URL's host when the host has two or more
\* labels, and the host itself when it has a single label.
C22_CookieDomainOfHost ==
    \A c \in AuthProxyConfigs :
        LET host == dashboardUrl.host
            n == Len(host)
        IN  c.auth.cookieDomain =
                IF n >= 2 THEN "." \o host[n - 1] \o "." \o host[n] ELSE host[1]

\* a config was emitted under a single-label dashboard host
C22_Witness ==
    /\ AuthProxyConfigs # {}
    /\ Len(dashboardUrl.host) = 1
    /\ \E c \in AuthProxyConfigs : c.auth.cookieDomain = "localhost"

\* a config was emitted under a four-label dashboard host
C22_WitnessLong ==
    /\ Len(dashboardUrl.host) = 4
    /\ \E c \in AuthProxyConfigs : c.auth.cookieDomain = ".example.org"

\* C23: in every emitted ResourceAuthConfig, targetUrl is scheme://ip:port of
\* an enabled target of the resource on the site, the scheme being https
\* exactly when that target's own ssl flag is set.
C23_TargetUrlFollowsTargetSsl ==
    lastOp.op = "updateAuthProxyForSite" =>
        \A c \in AuthProxyConfigs : \A i \in 1..Len(c.resources) :
            \E t \in DOMAIN targets :
                /\ targets[t].siteId = lastOp.arg
                /\ targets[t].enabled
                /\ targets[t].resourceId = c.resources[i].resourceId
                /\ c.resources[i].targetUrl =
                        (IF targets[t].ssl THEN "https" ELSE "http") \o "://"
                            \o targets[t].ip \o ":" \o ToString(targets[t].port)

\* the number of messages of the last operation addressed to agent a
Attempts(a) == Cardinality({i \in 1..Len(out) : out[i].to = a})

\* C24: within one updateDNSAuthorityForResource(R) in which a send rejects,
\* every Newt and Olm recipient of R gets exactly one send attempt.
C24_OneAttemptPerRecipient ==
    \A r \in DOMAIN resources :
        (/\ lastOp = UpdateOp(r)
         /\ sendFault.failing # {}
         /\ Truthy(resources[r].fullDomain)) =>
            \A a \in NewtRecipients(r) \cup OlmRecipients(r) : Attempts(a) = 1

\* the part of C24 about failures: a rejected send is not retried, does not
\* end the call and does not change the sends attempted after it
C24_FailureKeepsAttempts ==
    lastOp.op = "updateDNSAuthorityForResource" =>
        /\ ~sendFault.thrown
        /\ out = updateDNSAuthorityForResource(lastOp.arg)

\* the first send of a call with several recipients rejected
C24_WitnessFirstRejected ==
    /\ lastOp = UpdateOp(2)
    /\ Len(out) = 2
    /\ out[1].to \in sendFault.failing

\* C25: one updateDNSAuthorityForResource(R) invocation sends at most one
\* message to each distinct Newt and each distinct Olm.
C25_AtMostOnePerRecipient ==
    lastOp.op = "updateDNSAuthorityForResource" =>
        \A i, j \in 1..Len(out) : i # j => out[i].to # out[j].to

\* sites associated with client c
AssociatedSites(c) ==
    {a.siteId : a \in {x \in Range(clientSitesAssociationsCache) : x.clientId = c}}

\* C26: every zone pushed to an Olm during sync is the zone of a resource
\* with an enabled target on a site associated with that Olm's client.
C26_SyncZonesOnlyAssociated ==
    lastOp.op = "sendOlmSyncMessage" =>
        \A z \in SentZones :
            \E t \in DOMAIN targets :
                /\ targets[t].enabled
                /\ targets[t].siteId \in AssociatedSites(lastOp.arg)
                /\ resources[targets[t].resourceId].fullDomain = z.domain

\* the Olm the last sendOlmSyncMessage ran for
SyncedOlm == CHOOSE o \in Range(olms) : o.clientId = lastOp.arg

\* C27: sendOlmSyncMessage does not raise when the olm/sync send or the zone
\* push fails, and after a failed olm/sync send the zone push is attempted as
\* in a run without failure.
C27_SyncSwallowsPushFailures ==
    lastOp.op = "sendOlmSyncMessage" =>
        /\ ~sendFault.thrown
        /\ out[1].type = "olm/sync"
        /\ "store" \notin sendFault.failing =>
                SelectSeq(out, LAMBDA m : m.type = "olm/dns/authority/config")
                    = sendDNSAuthorityZonesToOlm(SyncedOlm, clients[lastOp.arg])

\* both the olm/sync send and the zone send rejected, and both were attempted
C27_Witness ==
    /\ lastOp.op = "sendOlmSyncMessage"
    /\ sendFault.failing = {"olm/sync", "olm/dns/authority/config"}
    /\ Len(out) = 2
    /\ out[2].type = "olm/dns/authority/config"

\* the olm/sync send rejected and the queries of the zone push threw
C27_WitnessStore ==
    /\ lastOp.op = "sendOlmSyncMessage"
    /\ sendFault.failing = {"olm/sync", "store"}
    /\ Len(out) = 1

\* C28: whenever handleHealthcheckStatusMessage changes the TargetHealth of a
\* target of a dnsAuthorityEnabled resource R, the same invocation runs
\* updateDNSAuthorityForResource(R), also when a later entry of the batch fails.
C28_HealthChangeTriggersUpdate ==
    [][(/\ lastOp'.op = "handleHealthcheckStatusMessage"
        /\ inMsg'.fault.kind # "dispatch") =>
            \A t \in DOMAIN targets :
                (/\ targetHealthCheck'[t] # targetHealthCheck[t]
                 /\ resources[targets[t].resourceId].dnsAuthorityEnabled) =>
                    targets[t].resourceId \in Range(called')]_vars

\* C29: after any sequence of healthcheck/status messages, every
\* TargetHealth.hcHealth is one of healthy, unhealthy, unknown.
C29_HcHealthInEnum ==
    \A t \in DOMAIN targetHealthCheck :
        targetHealthCheck[t].hcHealth \in {"healthy", "unhealthy", "unknown"}

\* C30: the resources list of every emitted auth-proxy config has no
\* resourceId twice, and has an entry for exactly the retained resources of
\* the site that have a fullDomain.
C30_OneEntryPerResource ==
    lastOp.op = "updateAuthProxyForSite" =>
        \A c \in AuthProxyConfigs :
            /\ \A i, j \in 1..Len(c.resources) :
                    i # j => c.resources[i].resourceId # c.resources[j].resourceId
            /\ {c.resources[i].resourceId : i \in 1..Len(c.resources)} =
                    {r \in DOMAIN resources :
                        /\ Truthy(resources[r].fullDomain)
                        /\ resources[r].dnsAuthorityEnabled
                        /\ resources[r].sso \/ resources[r].blockAccess
                                \/ resources[r].emailWhitelistEnabled
                        /\ \E t \in DOMAIN targets : /\ targets[t].resourceId = r
                                                     /\ targets[t].siteId = lastOp.arg
                                                     /\ targets[t].enabled}

\* the targets of r that buildDNSAuthorityConfig retains, in the order of its rows
RetainedTargets(r) ==
    SetToSeq({t \in DOMAIN targets :
                /\ targets[t].resourceId = r
                /\ targets[t].enabled
                /\ targets[t].siteId \in DOMAIN sites
                /\ sites[targets[t].siteId].dnsAuthorityEnabled
                /\ Truthy(sites[targets[t].siteId].publicIp)})

\* C31: in an emitted zone config of R, for any two retained targets a and b
\* with stored integer priorities a.priority < b.priority (0 included), the
\* entry of a has a strictly lower priority than the entry of b; a null
\* priority is emitted as 100.
C31_PriorityOrderPreserved ==
    \A r \in DOMAIN resources :
        (lastOp = UpdateOp(r) /\ buildDNSAuthorityConfig(r) # NullConfig) =>
            \A z \in SentZones :
                LET kept == RetainedTargets(r)
                IN  /\ Len(z.targets) = Len(kept)
                    /\ \A i \in 1..Len(kept) :
                            targets[kept[i]].priority = NullInt =>
                                z.targets[i].priority = 100
                    /\ \A i, j \in 1..Len(kept) :
                            (/\ targets[kept[i]].priority # NullInt
                             /\ targets[kept[j]].priority # NullInt
                             /\ targets[kept[i]].priority < targets[kept[j]].priority) =>
                                z.targets[i].priority < z.targets[j].priority

\* the protected resources with a domain that site s currently hosts
ProtectedOn(s) ==
    {r \in DOMAIN resources :
        /\ Truthy(resources[r].fullDomain)
        /\ resources[r].dnsAuthorityEnabled
        /\ resources[r].sso \/ resources[r].blockAccess \/ resources[r].emailWhitelistEnabled
        /\ \E t \in DOMAIN targets : /\ targets[t].resourceId = r
                                     /\ targets[t].siteId = s
                                     /\ targets[t].enabled}

\* C32: after updateAuthProxyForSite(s) completes with nothing dropped, the
\* resource list of the last newt/auth/proxy/config delivered to the Newt of
\* s is the set of protected resources currently hosted on s.
C32_LastConfigIsCurrent ==
    \A s \in DOMAIN sites :
        (lastOp = Op("updateAuthProxyForSite", s) /\ dashboardUrl # NoUrl) =>
            \A n \in NewtsOfSites({s}) : lastAuthProxy[n] = ProtectedOn(s)

\* private and public are the two halves of one generated keypair
MatchingPair(private, public) ==
    \E n \in 1..generated : private = PrivatePem(n) /\ public = PublicPem(n)

\* C33: across startups and crashes between the two key-file writes, whenever
\* ensureJwtKeypair returns, the cached public PEM is the public half of the
\* cached private key and the two files on disk form a matching pair.
C33_PairMatchesAfterCrash ==
    keyCall.op = "ensureJwtKeypair" =>
        /\ MatchingPair(cachedPrivateKey, cachedPublicKeyPem)
        /\ MatchingPair(privateKeyFile, publicKeyFile)

\* C34: when both jwt_private.pem and jwt_public.pem exist, a call of
\* ensureJwtKeypair leaves both files unchanged.
C34_ExistingFilesKept ==
    (/\ keyCall.op = "ensureJwtKeypair"
     /\ keyCall.privateBefore # NULL
     /\ keyCall.publicBefore # NULL) =>
        /\ privateKeyFile = keyCall.privateBefore
        /\ publicKeyFile = keyCall.publicBefore

\* C35: no operation of the core changes the sites, resources or targets
\* tables; only handleHealthcheckStatusMessage changes TargetHealth rows, only
\* rows of targets on the reporting Newt's site, and only their hcHealth field.
C35_OnlyHcHealthWritten ==
    [][/\ sites' = sites /\ resources' = resources /\ targets' = targets
       /\ reports' = reports => targetHealthCheck' = targetHealthCheck
       /\ DOMAIN targetHealthCheck' = DOMAIN targetHealthCheck
       /\ \A t \in DOMAIN targetHealthCheck :
            targetHealthCheck'[t] # targetHealthCheck[t] =>
                /\ targets[t].siteId = newts[inMsg'.newt].siteId
                /\ targetHealthCheck'[t] =
                        [targetHealthCheck[t] EXCEPT !.hcHealth = targetHealthCheck'[t].hcHealth]
      ]_vars

\* a report with hcEnabled false in its config changed the hcHealth of target 1,
\* whose stored hcEnabled is true
C35_Witness ==
    /\ lastOp.op = "handleHealthcheckStatusMessage"
    /\ inMsg.targets = <<[key |-> <<"1">>, status |-> "unhealthy",
                          config |-> [hcEnabled |-> FALSE]]>>
    /\ inMsg.newt = 1
    /\ targetHealthCheck[1].hcHealth = "unhealthy"
    /\ targetHealthCheck[1].hcEnabled

\* after the store was written by a report, a reconciler ran and left it as it was
C35_WitnessReconciler ==
    /\ lastOp.op = "updateAuthProxyForResource"
    /\ targetHealthCheck[1].hcHealth = "unhealthy"
    /\ response # NoResponse

\* the token of a request by the selection rule: the non-empty cookie, otherwise the
\* part after "Bearer " of a header of the Bearer scheme, otherwise none
SelectedToken ==
    IF request.p_session \notin {NULL, ""} THEN request.p_session
    ELSE LET ps == request.authorization.parts
         IN  IF request.authorization.set /\ ps # <<>> /\ ps[1] = "Bearer "
             THEN Concat(Tail(ps))
             ELSE NULL

\* C36: validateSession answers from the p_session cookie when it is present and
\* non-empty, otherwise from the part after "Bearer " of a Bearer Authorization header,
\* otherwise from no token: a request whose only credential is an Authorization header
\* that is not of the Bearer scheme is answered {valid: false}, and a request with a
\* cookie is answered by the cookie alone.
C36_TokenSelection ==
    (request # NoRequest /\ response.status # HttpCodeInternalServerError) =>
        /\ SelectedToken \in {NULL, ""} => response.data = [valid |-> FALSE]
        /\ response.data.valid =>
               \E i \in 1..Len(sessions) :
                   /\ sessions[i].sessionToken = SelectedToken
                   /\ sessions[i].expiresAt > request.now

\* the part of C36 the code keeps: a non-empty cookie alone decides the answer
C36_CookieFirst ==
    (request # NoRequest /\ request.p_session \notin {NULL, ""}) =>
        response = validateSession([request EXCEPT !.authorization = [set |-> FALSE, parts |-> <<>>]])

C36_WitnessCookieFirst ==
    /\ request # NoRequest
    /\ request.p_session = "tokX"
    /\ request.authorization.parts = <<"Bearer ", "tokA">>
    /\ request.now = 1
    /\ request.fault = "none"
    /\ response.data = [valid |-> FALSE]

====
